---- MODULE Spec2Model ----
(***************************************************************************)
(* Model of libside's runtime core (src/src/side.c): callback dispatch,    *)
(* callback registration, event registry, key allocator, state dump and    *)
(* library lifecycle.                                                      *)
(*                                                                         *)
(* Callback vectors are modelled as the bytes of the allocated block, so   *)
(* that calloc / memcpy / field stores act on memory as the C code does.   *)
(***************************************************************************)
EXTENDS Integers, Sequences, FiniteSets, TLC

(***************************************************************************)
(* Program constants                                                       *)
(***************************************************************************)
SIDE_ERROR_OK == 0
SIDE_ERROR_INVAL == 1
SIDE_ERROR_EXIST == 2
SIDE_ERROR_NOMEM == 3
SIDE_ERROR_NOENT == 4
SIDE_ERROR_EXITING == 5

SIDE_KEY_RESERVED_RANGE_END == 8
SIDE_KEY_MATCH_ALL == 0
SIDE_KEY_USER_EVENT == 1
SIDE_KEY_PTRACE == 2

\* sizeof(void *) == sizeof(uint64_t) on LP64.
\* enum side_statedump_mode
SIDE_STATEDUMP_MODE_POLLING == 0
SIDE_STATEDUMP_MODE_AGENT_THREAD == 1
\* enum agent_thread_state: a set of flags; BLOCKED is no flag.
AGENT_THREAD_STATE_BLOCKED == {}
AGENT_THREAD_STATE_HANDLE_REQUEST == "HANDLE_REQUEST"
AGENT_THREAD_STATE_EXIT == "EXIT"
AGENT_THREAD_STATE_PAUSE == "PAUSE"
AGENT_THREAD_STATE_PAUSE_ACK == "PAUSE_ACK"
WordBytes == 8
\* sizeof(struct side_callback): u.call, priv, key.
SizeofCallback == 24

(***************************************************************************)
(* Bounds of the model                                                     *)
(***************************************************************************)
\* Width-scaled stand-in for UINT32_MAX: the largest nr_callbacks value.
UINT32_MAX == 2
\* Width-scaled number of private (low) bits of the enabled word.
PrivateBits == 2
\* Number of heap blocks available to calloc.
MaxHeap == 3
\* uint64_t side_key_next is scaled to KeyBits bits.
KeyBits == 4
\* Most notifications queued on one state dump handle.
MaxQueue == 2
\* Most nested holds of side_statedump_lock by one thread.
MaxHold == 2
\* Most keys side_tracer_request_key hands out before the counter is set to wrap.
MaxKeys == 1
\* The same two bounds in the specification of polled state dumps.
MaxPollHold == 6
MaxPollQueue == 3

(***************************************************************************)
(* Inputs                                                                  *)
(***************************************************************************)
NULL == 0
\* Addresses of tracer callback functions: 0x401000 and 0x401021.
Calls == {4198400, 4198433}
\* Tracer private data pointers.
Privs == {NULL, 6336528}
\* The function whose address has a zero low byte, and the other one.
FnA == CHOOSE c \in Calls : c % 256 = 0
FnB == CHOOSE c \in Calls : c % 256 # 0
PrivP == CHOOSE p \in Privs : p # NULL
\* Callback keys used by tracers; emit keys.
Keys == {SIDE_KEY_MATCH_ALL, 9}
EmitKeys == {SIDE_KEY_MATCH_ALL, 7, 9}
\* Event descriptions: "e0" is non-variadic, "ev" has SIDE_EVENT_FLAG_VARIADIC.
Events == {"e0", "ev"}
\* side_static_event(side_statedump_begin, ...), side_static_event(side_statedump_end, ...)
StatedumpEvents == {"side_statedump_begin", "side_statedump_end"}
AllEvents == Events \cup StatedumpEvents
Threads == {"t1"}
NoThread == "none"
\* Event batches handed to side_events_register: arrays of description
\* pointers, which may hold NULL pointers.
NoEvent == "null"
BatchIds == {1, 2}
BatchEvents(b) == IF b = 1 THEN <<"e0">> ELSE <<NoEvent, "ev">>
\* Tracer notification handles a tracer may hold.
TracerIds == {1, 2}
\* The (call, priv, key) triples tracers register on each event.
Triple(call, priv, key) == [call |-> call, priv |-> priv, key |-> key]
EventTriples(e) ==
  IF e = "e0"
  THEN {Triple(FnA, NULL, SIDE_KEY_MATCH_ALL), Triple(FnB, NULL, SIDE_KEY_MATCH_ALL),
        Triple(FnA, PrivP, SIDE_KEY_MATCH_ALL), Triple(FnA, NULL, 9),
        Triple(NULL, NULL, SIDE_KEY_MATCH_ALL)}
  ELSE {Triple(FnA, NULL, SIDE_KEY_MATCH_ALL)}
\* What calling through a pointer that is no function can do.
UBOutcomes == {"fault", "return"}
\* Threads of the step-level specification: emitters and a tracer.
RcuReaders == {"r1", "r2"}
RcuWriters == {"w1"}
\* The call a tracer callback makes while an emit of "r1" invokes it runs on
\* the thread "r1"; its position and locals are kept under the name "c1".
RcuNested == {"c1"}
RcuThreads == RcuReaders \cup RcuWriters \cup RcuNested
\* Threads of the state dump specification with an agent: an application
\* thread, a tracer thread and the agent thread the library creates.
SdCallers == {"app", "tracer"}
AgentThread == "agent"
SdThreads == SdCallers \cup {AgentThread}
\* Tracer threads that ask for keys at the same time.
KeyThreads == {"k1", "k2"}
\* State dump handles the application registers.
SdHandles == {1, 2}
\* The statedump_cb of each handle (functions of the application).
StatedumpCb(h) == 4202496 + h
StatedumpCbs == {StatedumpCb(h) : h \in SdHandles}
\* Allocation outcomes of a call that allocates a handle and a notification.
AllocOutcomes == {"ok", "handle_nomem", "notif_nomem"}

SIDE_EVENT_FLAG_VARIADIC(e) == e = "ev"

RECURSIVE Pow2(_)
Pow2(n) == IF n = 0 THEN 1 ELSE 2 * Pow2(n - 1)

\* The enabled word: PrivateBits low bits, 8 shared top bits.
SIDE_EVENT_ENABLED_PRIVATE_MASK == Pow2(PrivateBits) - 1
SIDE_EVENT_ENABLED_SHARED_USER_EVENT_MASK == Pow2(PrivateBits + 7)
SIDE_EVENT_ENABLED_SHARED_PTRACE_MASK == Pow2(PrivateBits + 6)
WordMod == Pow2(PrivateBits + 8)
EnabledPrivate(w) == w % Pow2(PrivateBits)
EnabledShared(w) == w \div Pow2(PrivateBits)

(***************************************************************************)
(* Memory                                                                  *)
(***************************************************************************)
\* Address of the static side_empty_callback array.
side_empty_callback == 0
HeapAddrs == 1..MaxHeap
Addrs == {side_empty_callback} \cup HeapAddrs

Zeros(n) == [i \in 1..n |-> 0]

\* Little-endian encoding of v on n bytes, and its inverse.
RECURSIVE Bytes(_, _)
Bytes(v, n) == IF n = 0 THEN <<>> ELSE <<v % 256>> \o Bytes(v \div 256, n - 1)
RECURSIVE Val(_)
Val(b) == IF b = <<>> THEN 0 ELSE Head(b) + 256 * Val(Tail(b))

\* Fields of element i of an array of struct side_callback held in bytes b.
CbCall(b, i) == Val(SubSeq(b, i * SizeofCallback + 1, i * SizeofCallback + WordBytes))
CbPriv(b, i) == Val(SubSeq(b, i * SizeofCallback + WordBytes + 1, i * SizeofCallback + 2 * WordBytes))
CbKey(b, i) == Val(SubSeq(b, i * SizeofCallback + 2 * WordBytes + 1, i * SizeofCallback + 3 * WordBytes))

\* memcpy(dst + doff, src + soff, n): n is a number of bytes.
memcpy(dst, doff, src, soff, n) ==
  SubSeq(dst, 1, doff) \o SubSeq(src, soff + 1, soff + n)
    \o SubSeq(dst, doff + n + 1, Len(dst))

\* new_cb[i].u.call = call; new_cb[i].priv = priv; new_cb[i].key = key.
StoreCallback(b, i, call, priv, key) ==
  SubSeq(b, 1, i * SizeofCallback)
    \o Bytes(call, WordBytes) \o Bytes(priv, WordBytes) \o Bytes(key, WordBytes)
    \o SubSeq(b, (i + 1) * SizeofCallback + 1, Len(b))

\* calloc(n, sizeof(struct side_callback)): zeroed block.
calloc_bytes(n) == Zeros(n * SizeofCallback)

(***************************************************************************)
(* State                                                                   *)
(***************************************************************************)
VARIABLES
  initialized,   \* static bool initialized
  finalized,     \* static bool finalized
  es,            \* struct side_event_state_0 of each event
  mem,           \* side_empty_callback and the heap blocks holding callback vectors
  event_lock,    \* side_event_lock (recursive)
  events_list,   \* side_events_list: handles in list order
  tracer_list,   \* side_tracer_list: handles in list order
  tracer_view,   \* per tracer handle: what its notification callback was told
  op,            \* the operation of the last step
  ret,           \* value returned by the last API call
  invoked,       \* tracer callbacks invoked by the last emit, in call order
  crashed,       \* the process faulted
  registered,    \* ghost: triples accepted by register and not removed since
  pc,            \* position of each thread that runs an emit or a registration step by step
  frame,         \* local variables of those threads
  rcu_readers,   \* event_rcu_gp: threads inside a read section
  gp_wait,       \* event_rcu_gp: readers the grace period in progress waits for
  removed,       \* ghost: triples unregister returned Ok for, not published again since
  statedump_list,   \* side_statedump_list: handles in list order
  sd_handle,        \* struct side_statedump_request_handle of each handle
  statedump_lock,   \* side_statedump_lock (recursive)
  side_key_next,    \* static uint64_t side_key_next
  key_out,          \* the uint64_t side_tracer_request_key wrote through its argument
  side_key_lock,    \* side_key_lock: the thread that holds it
  key_frame,        \* side_tracer_request_key run step by step: position, value read, ret
  key_store,        \* per thread: the uint64_t its side_tracer_request_key calls write to
  keys_issued,      \* ghost: the keys written through the argument, in order
  agent_thread,            \* statedump_agent_thread: ref, state
  side_agent_thread_lock,  \* side_agent_thread_lock: the thread that holds it
  sd_frame,                \* state dump calls run step by step, and the agent thread:
                           \* position and locals of each thread
  delivered                \* ghost: the state dump callback invocations, in order

coreVars == <<initialized, finalized, es, mem, event_lock, events_list,
              tracer_list, tracer_view, op, ret, invoked, crashed, registered>>
rcuVars == <<pc, frame, rcu_readers, gp_wait, removed>>
sdVars == <<statedump_list, sd_handle, statedump_lock, side_key_next, key_out>>
keyVars == <<side_key_lock, key_frame, key_store, keys_issued>>
\* What the calls of the callback core, of the registry and of the polled
\* state dumps leave alone.
agentVars == <<agent_thread, side_agent_thread_lock, sd_frame, delivered>>
extVars == <<keyVars, agentVars>>
vars == <<coreVars, rcuVars, sdVars, extVars>>

(***************************************************************************)
(* pthread recursive mutex                                                 *)
(***************************************************************************)
MutexFree == [owner |-> NoThread, depth |-> 0]
MutexCanLock(m, t) == m.owner \in {NoThread, t}
pthread_mutex_lock(m, t) == [owner |-> t, depth |-> m.depth + 1]
pthread_mutex_unlock(m) ==
  IF m.depth = 1 THEN MutexFree ELSE [m EXCEPT !.depth = @ - 1]

(***************************************************************************)
(* Heap                                                                    *)
(***************************************************************************)
FreeBlocks(m) == {a \in HeapAddrs : ~m[a].live}
\* The block calloc returns (lowest free address).
calloc_block(m) == CHOOSE a \in FreeBlocks(m) : \A c \in FreeBlocks(m) : a <= c
\* calloc succeeds when the allocator does not fail and memory is left.
calloc_ok(m, alloc_ok) == alloc_ok /\ FreeBlocks(m) # {}
free(m, a) == [m EXCEPT ![a] = [live |-> FALSE, bytes |-> <<>>]]

(***************************************************************************)
(* Callback vectors                                                        *)
(***************************************************************************)
\* for (cb = es0->callbacks; cb->u.call != NULL; cb++): index of the entry
\* equal to (call, priv, key), or -1 for NULL.
RECURSIVE LookupFrom(_, _, _, _, _)
LookupFrom(b, i, call, priv, key) ==
  IF CbCall(b, i) = NULL THEN -1
  ELSE IF CbCall(b, i) = call /\ CbPriv(b, i) = priv /\ CbKey(b, i) = key THEN i
  ELSE LookupFrom(b, i + 1, call, priv, key)

RECURSIVE LookupNoKeyFrom(_, _, _, _)
LookupNoKeyFrom(b, i, call, priv) ==
  IF CbCall(b, i) = NULL THEN -1
  ELSE IF CbCall(b, i) = call /\ CbPriv(b, i) = priv THEN i
  ELSE LookupNoKeyFrom(b, i + 1, call, priv)
side_tracer_callback_lookup_call_priv(st, e, call, priv, key) ==
  LookupNoKeyFrom(st.mem[st.es[e].callbacks].bytes, 0, call, priv)
\* static const struct side_callback *side_tracer_callback_lookup(desc, call, priv, key)
side_tracer_callback_lookup(st, e, call, priv, key) ==
  LookupFrom(st.mem[st.es[e].callbacks].bytes, 0, call, priv, key)

\* The vector built by register: calloc(old_nr_cb + 2), memcpy of old_nr_cb
\* bytes, then the new entry stored at index old_nr_cb.
RegisterNewVector(old_cb, old_nr_cb, call, priv, key) ==
  StoreCallback(memcpy(calloc_bytes(old_nr_cb + 2), 0, old_cb, 0, old_nr_cb),
                old_nr_cb, call, priv, key)

\* The vector built by unregister when more than one callback is counted:
\* calloc(old_nr_cb), memcpy of pos_idx bytes, memcpy of
\* old_nr_cb - pos_idx - 1 bytes from &old_cb[pos_idx + 1] to &new_cb[pos_idx].
UnregisterNewVector(old_cb, old_nr_cb, pos_idx) ==
  memcpy(memcpy(calloc_bytes(old_nr_cb), 0, old_cb, 0, pos_idx),
         pos_idx * SizeofCallback, old_cb, (pos_idx + 1) * SizeofCallback,
         old_nr_cb - pos_idx - 1)

\* Entries of the vector in index order up to the first NULL function pointer.
RECURSIVE VectorEntries(_, _)
VectorEntries(b, i) ==
  IF CbCall(b, i) = NULL THEN <<>>
  ELSE <<[call |-> CbCall(b, i), priv |-> CbPriv(b, i), key |-> CbKey(b, i)]>>
       \o VectorEntries(b, i + 1)

\* What a tracer that was told nothing knows: the batches it holds, whether
\* an Insert or a Remove came that did not fit them, and whether a
\* notification of a registration came while the batch was not linked, or of
\* an unregistration while it was.
NoView == [seen |-> {}, err |-> FALSE, misordered |-> FALSE]
\* Locals of a thread outside the library.
NoFrame == [fn |-> "none", e |-> NoEvent, key |-> SIDE_KEY_MATCH_ALL,
            cb |-> side_empty_callback, i |-> 0,
            x |-> Triple(NULL, NULL, SIDE_KEY_MATCH_ALL), pre |-> {}]
\* Locals of a thread outside the state dump calls; of the agent thread
\* before it is created.
NoSdFrame == [pc |-> "idle", fn |-> "none", h |-> NULL, tmp_head |-> <<>>,
              state |-> {}, gp_wait |-> {}]
\* Locals of a thread outside side_tracer_request_key.
NoKeyFrame == [pc |-> "idle", key |-> 0, ret |-> SIDE_ERROR_OK]
\* A state dump handle that is not allocated.
NoHandle == [allocated |-> FALSE, mode |-> SIDE_STATEDUMP_MODE_POLLING, queue |-> <<>>,
             next |-> NULL]

Init ==
  /\ initialized = FALSE
  /\ finalized = FALSE
  /\ es = [e \in AllEvents |-> [nr_callbacks |-> 0, enabled |-> 0,
                             callbacks |-> side_empty_callback]]
  /\ mem = [a \in Addrs |->
              IF a = side_empty_callback
              THEN [live |-> TRUE, bytes |-> Zeros(SizeofCallback)]
              ELSE [live |-> FALSE, bytes |-> <<>>]]
  /\ event_lock = MutexFree
  /\ events_list = <<>>
  /\ tracer_list = <<>>
  /\ tracer_view = [h \in TracerIds |-> NoView]
  /\ op = "none"
  /\ ret = SIDE_ERROR_OK
  /\ invoked = <<>>
  /\ crashed = FALSE
  /\ registered = [e \in AllEvents |-> <<>>]
  /\ pc = [t \in RcuThreads |-> "idle"]
  /\ frame = [t \in RcuThreads |-> NoFrame]
  /\ rcu_readers = {}
  /\ gp_wait = {}
  /\ removed = [e \in AllEvents |-> {}]
  /\ statedump_list = <<>>
  /\ sd_handle = [h \in SdHandles |-> NoHandle]
  /\ statedump_lock = MutexFree
  /\ side_key_next = SIDE_KEY_RESERVED_RANGE_END
  /\ key_out = 0
  /\ side_key_lock = NoThread
  /\ key_frame = [t \in KeyThreads |-> NoKeyFrame]
  /\ key_store = [t \in KeyThreads |-> 0]
  /\ keys_issued = <<>>
  /\ agent_thread = [ref |-> 0, state |-> AGENT_THREAD_STATE_BLOCKED]
  /\ side_agent_thread_lock = NoThread
  /\ sd_frame = [t \in SdThreads |-> NoSdFrame]
  /\ delivered = <<>>

(***************************************************************************)
(* Callback registration (code run with side_event_lock held)              *)
(*                                                                         *)
(* st is the state the registry mutex protects: [es, mem].                 *)
(***************************************************************************)
Protected == [es |-> es, mem |-> mem]

\* An update of enabled that stores the private count and drops the rest of
\* the word.
atomic_add_fetch_private_only(w, d) == (EnabledPrivate(w) + WordMod + d) % WordMod

\* __atomic_add_fetch(&es0->enabled, d, __ATOMIC_RELAXED) on the whole word.
atomic_add_fetch(w, d) == (w + WordMod + d) % WordMod

\* ret = code; goto unlock: the call is rejected with the state as it was.
goto_unlock_after_count(st, e, code, old_cb, old_nr_cb) ==
  [ret |-> code, published |-> FALSE,
   st |-> IF code = SIDE_ERROR_NOMEM
          THEN [st EXCEPT !.es[e].nr_callbacks = (@ + 1) % (UINT32_MAX + 1)]
          ELSE st,
   old_cb |-> old_cb, old_nr_cb |-> old_nr_cb]
goto_unlock(st, e, code, old_cb, old_nr_cb) ==
  [ret |-> code, published |-> FALSE, st |-> st,
   old_cb |-> old_cb, old_nr_cb |-> old_nr_cb]

\* _side_tracer_callback_register from the lock to the pointer publication:
\* the checks, the allocation, the rebuild and side_rcu_assign_pointer.
register_publish(st, e, call, priv, key, alloc_ok) ==
  LET old_nr_cb == st.es[e].nr_callbacks
      old_cb == st.es[e].callbacks
      new_cb == calloc_block(st.mem)
      stop(code) == goto_unlock(st, e, code, old_cb, old_nr_cb)
  IN IF old_nr_cb = UINT32_MAX THEN stop(SIDE_ERROR_INVAL)
     ELSE IF side_tracer_callback_lookup(st, e, call, priv, key) # -1
     THEN stop(SIDE_ERROR_EXIST)
     ELSE IF ~calloc_ok(st.mem, alloc_ok) THEN stop(SIDE_ERROR_NOMEM)
     ELSE [ret |-> SIDE_ERROR_OK, published |-> TRUE,
           st |-> [es |-> [st.es EXCEPT ![e].callbacks = new_cb],
                   mem |-> [st.mem EXCEPT ![new_cb] =
                              [live |-> TRUE,
                               bytes |-> RegisterNewVector(st.mem[old_cb].bytes,
                                                           old_nr_cb, call, priv, key)]]],
           old_cb |-> old_cb, old_nr_cb |-> old_nr_cb]

register_finish_enable_always(st, e, old_cb, old_nr_cb) ==
  [es |-> [st.es EXCEPT
             ![e].nr_callbacks = (@ + 1) % (UINT32_MAX + 1),
             ![e].enabled = atomic_add_fetch(@, 1)],
   mem |-> IF old_nr_cb # 0 THEN free(st.mem, old_cb) ELSE st.mem]
register_finish_free_always(st, e, old_cb, old_nr_cb) ==
  [es |-> [st.es EXCEPT
             ![e].nr_callbacks = (@ + 1) % (UINT32_MAX + 1),
             ![e].enabled = IF old_nr_cb = 0 THEN atomic_add_fetch(@, 1) ELSE @],
   mem |-> free(st.mem, old_cb)]
\* _side_tracer_callback_register after the grace period: free of the old
\* vector, nr_callbacks++, enabled incremented on the first callback.
register_finish(st, e, old_cb, old_nr_cb) ==
  [es |-> [st.es EXCEPT
             ![e].nr_callbacks = (@ + 1) % (UINT32_MAX + 1),
             ![e].enabled = IF old_nr_cb = 0 THEN atomic_add_fetch(@, 1) ELSE @],
   mem |-> IF old_nr_cb # 0 THEN free(st.mem, old_cb) ELSE st.mem]

\* _side_tracer_callback_unregister from the lock to the pointer publication.
unregister_publish(st, e, call, priv, key, alloc_ok) ==
  LET cb_pos == side_tracer_callback_lookup(st, e, call, priv, key)
      old_nr_cb == st.es[e].nr_callbacks
      old_cb == st.es[e].callbacks
      new_cb == calloc_block(st.mem)
      stop(code) == goto_unlock(st, e, code, old_cb, old_nr_cb)
  IN IF cb_pos = -1 THEN stop(SIDE_ERROR_NOENT)
     ELSE IF old_nr_cb = 1
     THEN [ret |-> SIDE_ERROR_OK, published |-> TRUE,
           st |-> [es |-> [st.es EXCEPT ![e].callbacks = side_empty_callback],
                   mem |-> st.mem],
           old_cb |-> old_cb, old_nr_cb |-> old_nr_cb]
     ELSE IF ~calloc_ok(st.mem, alloc_ok) THEN stop(SIDE_ERROR_NOMEM)
     ELSE [ret |-> SIDE_ERROR_OK, published |-> TRUE,
           st |-> [es |-> [st.es EXCEPT ![e].callbacks = new_cb],
                   mem |-> [st.mem EXCEPT ![new_cb] =
                              [live |-> TRUE,
                               bytes |-> UnregisterNewVector(st.mem[old_cb].bytes,
                                                             old_nr_cb, cb_pos)]]],
           old_cb |-> old_cb, old_nr_cb |-> old_nr_cb]

\* _side_tracer_callback_unregister after the grace period: free(old_cb),
\* nr_callbacks--, enabled decremented when the last callback went.
unregister_finish(st, e, old_cb, old_nr_cb) ==
  [es |-> [st.es EXCEPT
             ![e].nr_callbacks = (@ + UINT32_MAX) % (UINT32_MAX + 1),
             ![e].enabled = IF old_nr_cb = 1 THEN atomic_add_fetch(@, -1) ELSE @],
   mem |-> free(st.mem, old_cb)]

(***************************************************************************)
(* Dispatch                                                                *)
(***************************************************************************)
\* The loop of _side_call / _side_call_variadic over the vector b from index
\* i: the entries whose function is called, in call order.
RECURSIVE CallLoop(_, _, _)
CallLoop(b, i, key) ==
  IF CbCall(b, i) = NULL THEN <<>>
  ELSE IF key # SIDE_KEY_MATCH_ALL /\ CbKey(b, i) # SIDE_KEY_MATCH_ALL /\ CbKey(b, i) # key
  THEN CallLoop(b, i + 1, key)
  ELSE <<[call |-> CbCall(b, i), priv |-> CbPriv(b, i), key |-> CbKey(b, i)]>>
       \o CallLoop(b, i + 1, key)

\* Calls made before the first call through a pointer that is no function.
RECURSIVE ValidPrefix(_)
ValidPrefix(s) ==
  IF s = <<>> \/ Head(s).call \notin Calls \cup StatedumpCbs THEN <<>>
  ELSE <<Head(s)>> \o ValidPrefix(Tail(s))

Return(code) == ret' = code /\ invoked' = <<>>

\* side_init that also clears finalized.
side_init_clears_finalized ==
  /\ ~crashed
  /\ UNCHANGED <<rcuVars, sdVars, extVars>>
  /\ op' = "side_init"
  /\ initialized' = TRUE
  /\ finalized' = FALSE
  /\ UNCHANGED <<es, mem, event_lock, events_list, tracer_list,
                 tracer_view, ret, invoked, crashed, registered>>

\* void side_init(void)
side_init ==
  /\ ~crashed
  /\ UNCHANGED <<rcuVars, sdVars, extVars>>
  /\ op' = "side_init"
  /\ initialized' = TRUE
  /\ UNCHANGED <<finalized, es, mem, event_lock, events_list, tracer_list,
                 tracer_view, ret, invoked, crashed, registered>>

\* _side_call and _side_call_variadic; variadic_api tells which one. The
\* assert on the event's VARIADIC flag aborts; a call through a pointer that
\* is no function is undefined: it faults, or returns and the loop goes on.
dispatch(t, e, variadic_api, key) ==
  /\ ~crashed
  /\ UNCHANGED <<rcuVars, sdVars, extVars>>
  /\ op' = "emit"
  /\ ret' = NULL
  /\ IF finalized
     THEN /\ invoked' = <<>>
          /\ UNCHANGED <<initialized, crashed>>
     ELSE /\ initialized' = TRUE
          /\ IF SIDE_EVENT_FLAG_VARIADIC(e) # variadic_api
             THEN invoked' = <<>> /\ crashed' = TRUE
             ELSE LET calls == CallLoop(mem[es[e].callbacks].bytes, 0, key)
                  IN \E ub \in IF ValidPrefix(calls) = calls THEN {"return"}
                               ELSE UBOutcomes :
                       IF ub = "fault"
                       THEN invoked' = ValidPrefix(calls) /\ crashed' = TRUE
                       ELSE invoked' = calls /\ crashed' = FALSE
  /\ UNCHANGED <<finalized, es, mem, event_lock, events_list, tracer_list,
                 tracer_view, registered>>

\* void side_call(event_state, side_arg_vec)
side_call(t, e) == dispatch(t, e, FALSE, SIDE_KEY_MATCH_ALL)
\* void side_statedump_call(event_state, side_arg_vec, statedump_request_key)
side_statedump_call(t, e, key) == dispatch(t, e, FALSE, key)
\* void side_call_variadic(event_state, side_arg_vec, var_struct)
side_call_variadic(t, e) == dispatch(t, e, TRUE, SIDE_KEY_MATCH_ALL)
\* void side_statedump_call_variadic(..., statedump_request_key)
side_statedump_call_variadic(t, e, key) == dispatch(t, e, TRUE, key)

(***************************************************************************)
(* Callback register / unregister entry points                             *)
(***************************************************************************)
\* Ghost bookkeeping of the triples a tracer holds on event e.
RemoveFirst(s, x) ==
  IF \E i \in 1..Len(s) : s[i] = x
  THEN LET i == CHOOSE j \in 1..Len(s) : s[j] = x /\ \A k \in 1..(j - 1) : s[k] # x
       IN SubSeq(s, 1, i - 1) \o SubSeq(s, i + 1, Len(s))
  ELSE s

\* if (!call) return SIDE_ERROR_INVAL; if (finalized) return SIDE_ERROR_EXITING;
\* SIDE_ERROR_OK stands for neither.
entry_checks_finalized_first(call) ==
  IF finalized THEN SIDE_ERROR_EXITING
  ELSE IF call = NULL THEN SIDE_ERROR_INVAL
  ELSE SIDE_ERROR_OK
entry_checks(call) ==
  IF call = NULL THEN SIDE_ERROR_INVAL
  ELSE IF finalized THEN SIDE_ERROR_EXITING
  ELSE SIDE_ERROR_OK

\* static int _side_tracer_callback_register(desc, call, priv, key)
_side_tracer_callback_register(t, e, call, priv, key, alloc_ok) ==
  IF entry_checks(call) # SIDE_ERROR_OK
  THEN Return(entry_checks(call)) /\ UNCHANGED <<initialized, es, mem, event_lock>>
  ELSE /\ MutexCanLock(event_lock, t)
       /\ initialized' = TRUE
       /\ LET locked == pthread_mutex_lock(event_lock, t)
              p == register_publish(Protected, e, call, priv, key, alloc_ok)
              f == IF p.published
                   THEN register_finish(p.st, e, p.old_cb, p.old_nr_cb)
                   ELSE p.st
          IN /\ es' = f.es
             /\ mem' = f.mem
             /\ event_lock' = pthread_mutex_unlock(locked)
             /\ Return(p.ret)

\* static int _side_tracer_callback_unregister(desc, call, priv, key)
_side_tracer_callback_unregister(t, e, call, priv, key, alloc_ok) ==
  IF entry_checks(call) # SIDE_ERROR_OK
  THEN Return(entry_checks(call)) /\ UNCHANGED <<initialized, es, mem, event_lock>>
  ELSE /\ MutexCanLock(event_lock, t)
       /\ initialized' = TRUE
       /\ LET locked == pthread_mutex_lock(event_lock, t)
              p == unregister_publish(Protected, e, call, priv, key, alloc_ok)
              f == IF p.published
                   THEN unregister_finish(p.st, e, p.old_cb, p.old_nr_cb)
                   ELSE p.st
          IN /\ es' = f.es
             /\ mem' = f.mem
             /\ event_lock' = pthread_mutex_unlock(locked)
             /\ Return(p.ret)

\* int side_tracer_callback_register(desc, call, priv, key) and
\* int side_tracer_callback_variadic_register(desc, call_variadic, priv, key)
side_tracer_callback_register(t, e, variadic_api, call, priv, key, alloc_ok) ==
  /\ ~crashed
  /\ UNCHANGED <<rcuVars, sdVars, extVars>>
  /\ op' = "register"
  /\ IF SIDE_EVENT_FLAG_VARIADIC(e) # variadic_api
     THEN Return(SIDE_ERROR_INVAL) /\ UNCHANGED <<initialized, es, mem, event_lock>>
     ELSE _side_tracer_callback_register(t, e, call, priv, key, alloc_ok)
  /\ registered' = IF ret' = SIDE_ERROR_OK
                   THEN [registered EXCEPT ![e] = Append(@, Triple(call, priv, key))]
                   ELSE registered
  /\ UNCHANGED <<finalized, events_list, tracer_list, tracer_view, crashed>>

\* int side_tracer_callback_unregister(desc, call, priv, key) and
\* int side_tracer_callback_variadic_unregister(desc, call_variadic, priv, key)
side_tracer_callback_unregister(t, e, variadic_api, call, priv, key, alloc_ok) ==
  /\ ~crashed
  /\ UNCHANGED <<rcuVars, sdVars, extVars>>
  /\ op' = "unregister"
  /\ IF SIDE_EVENT_FLAG_VARIADIC(e) # variadic_api
     THEN Return(SIDE_ERROR_INVAL) /\ UNCHANGED <<initialized, es, mem, event_lock>>
     ELSE _side_tracer_callback_unregister(t, e, call, priv, key, alloc_ok)
  /\ registered' = IF ret' = SIDE_ERROR_OK
                   THEN [registered EXCEPT ![e] = RemoveFirst(@, Triple(call, priv, key))]
                   ELSE registered
  /\ UNCHANGED <<finalized, events_list, tracer_list, tracer_view, crashed>>

(***************************************************************************)
(* Registry                                                                *)
(***************************************************************************)
Range(s) == {s[i] : i \in 1..Len(s)}
RECURSIVE Without(_, _)
Without(s, x) ==
  IF s = <<>> THEN <<>>
  ELSE IF Head(s) = x THEN Without(Tail(s), x)
  ELSE <<Head(s)>> \o Without(Tail(s), x)

ReturnVoid == ret' = NULL /\ invoked' = <<>>

\* A tracer's notification callback, as the tracer's record of the batches it
\* was told about: err is set by an insert of a batch it already knows and
\* by a remove of a batch it does not know.
tracer_cb(view, notif, b) ==
  IF notif = "SIDE_TRACER_NOTIFICATION_INSERT_EVENTS"
  THEN [view EXCEPT !.seen = view.seen \cup {b}, !.err = view.err \/ b \in view.seen]
  ELSE [view EXCEPT !.seen = view.seen \ {b}, !.err = view.err \/ b \notin view.seen]

\* side_list_for_each_entry(tracer_handle, &side_tracer_list, node)
\*         tracer_handle->cb(notif, events, nr_events, tracer_handle->priv);
\* list is side_events_list at the time of the loop.
notify_tracers(views, tracers, notif, b, list) ==
  [h \in TracerIds |-> IF h \in Range(tracers)
                       THEN [tracer_cb(views[h], notif, b) EXCEPT
                               !.misordered =
                                 @ \/ ((notif = "SIDE_TRACER_NOTIFICATION_INSERT_EVENTS")
                                         # (b \in Range(list)))]
                       ELSE views[h]]

\* static void side_event_remove_callbacks(desc)
side_event_remove_callbacks(st, e) ==
  LET nr_cb == st.es[e].nr_callbacks
      old_cb == st.es[e].callbacks
  IN IF nr_cb = 0 THEN st
     ELSE [es |-> [st.es EXCEPT ![e].enabled = atomic_add_fetch(@, -1),
                                ![e].nr_callbacks = 0,
                                ![e].callbacks = side_empty_callback],
           mem |-> free(st.mem, old_cb)]

\* for (i = 0; i < events_handle->nr_events; i++): skip NULL pointers,
\* side_event_remove_callbacks(event).
RECURSIVE remove_batch_callbacks(_, _, _)
remove_batch_callbacks(st, events, i) ==
  IF i > Len(events) THEN st
  ELSE remove_batch_callbacks(
         IF events[i] = NoEvent THEN st ELSE side_event_remove_callbacks(st, events[i]),
         events, i + 1)

\* side_events_unregister that tells the tracers before it unlinks the batch
\* and leaves the callbacks of the batch's events in place.
events_unregister_locked_notify_first(r, tracers, b) ==
  [es |-> r.es, mem |-> r.mem,
   events_list |-> Without(r.events_list, b),
   tracer_view |-> notify_tracers(r.tracer_view, tracers,
                                  "SIDE_TRACER_NOTIFICATION_REMOVE_EVENTS", b,
                                  r.events_list)]

\* side_events_unregister between lock and unlock, on the record
\* r = [es, mem, events_list, tracer_view].
events_unregister_locked(r, tracers, b) ==
  LET st == remove_batch_callbacks([es |-> r.es, mem |-> r.mem], BatchEvents(b), 1)
      unlinked == Without(r.events_list, b)
  IN [es |-> st.es, mem |-> st.mem,
      events_list |-> unlinked,
      tracer_view |-> notify_tracers(r.tracer_view, tracers,
                                     "SIDE_TRACER_NOTIFICATION_REMOVE_EVENTS", b,
                                     unlinked)]

\* Ghost: the triples of the events of batch b are gone.
DrainRegistered(reg, b) ==
  [e \in AllEvents |-> IF e \in Range(BatchEvents(b)) THEN <<>> ELSE reg[e]]

\* struct side_events_register_handle *side_events_register(events, nr_events)
side_events_register(t, b, alloc_ok) ==
  /\ ~crashed
  /\ UNCHANGED <<rcuVars, sdVars, extVars>>
  /\ op' = "side_events_register"
  /\ b \notin Range(events_list)
  /\ IF finalized
     THEN Return(NULL) /\ UNCHANGED <<initialized, events_list, tracer_view, event_lock>>
     ELSE /\ initialized' = TRUE
          /\ IF ~alloc_ok
             THEN Return(NULL) /\ UNCHANGED <<events_list, tracer_view, event_lock>>
             ELSE /\ MutexCanLock(event_lock, t)
                  /\ events_list' = Append(events_list, b)
                  /\ tracer_view' = notify_tracers(tracer_view, tracer_list,
                                      "SIDE_TRACER_NOTIFICATION_INSERT_EVENTS", b,
                                      events_list')
                  /\ event_lock' = pthread_mutex_unlock(pthread_mutex_lock(event_lock, t))
                  /\ Return(b)
  /\ UNCHANGED <<finalized, es, mem, tracer_list, crashed, registered>>

\* void side_events_unregister(events_handle); b = NULL is the null handle.
side_events_unregister(t, b) ==
  /\ ~crashed
  /\ UNCHANGED <<rcuVars, sdVars, extVars>>
  /\ op' = "side_events_unregister"
  /\ b = NULL \/ b \in Range(events_list)
  /\ IF b = NULL \/ finalized
     THEN UNCHANGED <<initialized, es, mem, events_list, tracer_view, event_lock,
                      registered>>
     ELSE /\ initialized' = TRUE
          /\ MutexCanLock(event_lock, t)
          /\ LET r == events_unregister_locked(
                        [es |-> es, mem |-> mem, events_list |-> events_list,
                         tracer_view |-> tracer_view], tracer_list, b)
             IN /\ es' = r.es
                /\ mem' = r.mem
                /\ events_list' = r.events_list
                /\ tracer_view' = r.tracer_view
          /\ event_lock' = pthread_mutex_unlock(pthread_mutex_lock(event_lock, t))
          /\ registered' = DrainRegistered(registered, b)
  /\ ReturnVoid
  /\ UNCHANGED <<finalized, tracer_list, crashed>>

\* A tracer that is told nothing about the batches already in the list.
replay_events_none(view, notif, handles) == view

\* side_list_for_each_entry(events_handle, &side_events_list, node)
\*         cb(notif, events_handle->events, events_handle->nr_events, priv);
RECURSIVE replay_events(_, _, _)
replay_events(view, notif, handles) ==
  IF handles = <<>> THEN view
  ELSE replay_events(tracer_cb(view, notif, Head(handles)), notif, Tail(handles))

\* struct side_tracer_handle *side_tracer_event_notification_register(cb, priv)
side_tracer_event_notification_register(t, h, alloc_ok) ==
  /\ ~crashed
  /\ UNCHANGED <<rcuVars, sdVars, extVars>>
  /\ op' = "side_tracer_event_notification_register"
  /\ h \notin Range(tracer_list)
  /\ IF finalized
     THEN Return(NULL) /\ UNCHANGED <<initialized, tracer_list, tracer_view, event_lock>>
     ELSE /\ initialized' = TRUE
          /\ IF ~alloc_ok
             THEN Return(NULL) /\ UNCHANGED <<tracer_list, tracer_view, event_lock>>
             ELSE /\ MutexCanLock(event_lock, t)
                  /\ tracer_list' = Append(tracer_list, h)
                  /\ tracer_view' =
                       [tracer_view EXCEPT ![h] =
                          replay_events([NoView EXCEPT
                                           !.misordered = tracer_view[h].misordered],
                                        "SIDE_TRACER_NOTIFICATION_INSERT_EVENTS",
                                        events_list)]
                  /\ event_lock' = pthread_mutex_unlock(pthread_mutex_lock(event_lock, t))
                  /\ Return(h)
  /\ UNCHANGED <<finalized, es, mem, events_list, crashed, registered>>

\* void side_tracer_event_notification_unregister(tracer_handle)
side_tracer_event_notification_unregister(t, h) ==
  /\ ~crashed
  /\ UNCHANGED <<rcuVars, sdVars, extVars>>
  /\ op' = "side_tracer_event_notification_unregister"
  /\ h \in Range(tracer_list)
  /\ IF finalized
     THEN UNCHANGED <<initialized, tracer_list, tracer_view, event_lock>>
     ELSE /\ initialized' = TRUE
          /\ MutexCanLock(event_lock, t)
          /\ tracer_view' =
               [tracer_view EXCEPT ![h] =
                  replay_events(@, "SIDE_TRACER_NOTIFICATION_REMOVE_EVENTS", events_list)]
          /\ tracer_list' = Without(tracer_list, h)
          /\ event_lock' = pthread_mutex_unlock(pthread_mutex_lock(event_lock, t))
  /\ ReturnVoid
  /\ UNCHANGED <<finalized, es, mem, events_list, crashed, registered>>

(***************************************************************************)
(* Lifecycle                                                               *)
(***************************************************************************)
\* side_list_for_each_entry_safe(handle, tmp, &side_events_list, node)
\*         side_events_unregister(handle);
RECURSIVE exit_unregister_all(_, _, _)
exit_unregister_all(r, tracers, handles) ==
  IF handles = <<>> THEN r
  ELSE exit_unregister_all(events_unregister_locked(r, tracers, Head(handles)),
                           tracers, Tail(handles))

RECURSIVE DrainAll(_, _)
DrainAll(reg, handles) ==
  IF handles = <<>> THEN reg
  ELSE DrainAll(DrainRegistered(reg, Head(handles)), Tail(handles))

\* void side_exit(void)
side_exit(t) ==
  /\ ~crashed
  /\ UNCHANGED <<rcuVars, sdVars, extVars>>
  /\ op' = "side_exit"
  /\ IF finalized
     THEN UNCHANGED <<initialized, finalized, es, mem, events_list, tracer_view,
                      registered>>
     ELSE /\ events_list # <<>> => MutexCanLock(event_lock, t)
          /\ initialized' = (initialized \/ events_list # <<>>)
          /\ LET r == exit_unregister_all(
                        [es |-> es, mem |-> mem, events_list |-> events_list,
                         tracer_view |-> tracer_view], tracer_list, events_list)
             IN /\ es' = r.es
                /\ mem' = r.mem
                /\ events_list' = r.events_list
                /\ tracer_view' = r.tracer_view
          /\ registered' = DrainAll(registered, events_list)
          /\ finalized' = TRUE
  /\ ReturnVoid
  /\ UNCHANGED <<event_lock, tracer_list, crashed>>

(***************************************************************************)
(* Out-of-process tracers write the shared top bits of the enabled word.   *)
(***************************************************************************)
shared_bit_toggle(e, mask) ==
  /\ ~crashed
  /\ UNCHANGED <<rcuVars, sdVars, extVars>>
  /\ op' = "shared_bit_toggle"
  /\ es' = [es EXCEPT ![e].enabled =
              IF (@ \div mask) % 2 = 1 THEN @ - mask ELSE @ + mask]
  /\ UNCHANGED <<initialized, finalized, mem, event_lock, events_list, tracer_list,
                 tracer_view, ret, invoked, crashed, registered>>

(***************************************************************************)
(* Specification of the callback core: every call runs to completion       *)
(* before the next one starts.                                             *)
(***************************************************************************)
\* Calls through the entry point that does not match the event's VARIADIC
\* flag are tried with one triple.
ApiTriples(e, variadic_api) ==
  IF SIDE_EVENT_FLAG_VARIADIC(e) = variadic_api THEN EventTriples(e)
  ELSE {Triple(FnA, NULL, SIDE_KEY_MATCH_ALL)}

Next ==
  \/ side_init
  \/ \E t \in Threads, e \in Events :
       \/ side_call(t, e)
       \/ side_call_variadic(t, e)
  \/ \E t \in Threads, key \in EmitKeys :
       \/ side_statedump_call(t, "e0", key)
       \/ side_statedump_call_variadic(t, "ev", key)
  \/ \E t \in Threads, e \in Events, variadic_api \in BOOLEAN, alloc_ok \in BOOLEAN :
       \E x \in ApiTriples(e, variadic_api) :
         \/ side_tracer_callback_register(t, e, variadic_api, x.call, x.priv, x.key, alloc_ok)
         \/ side_tracer_callback_unregister(t, e, variadic_api, x.call, x.priv, x.key, alloc_ok)
  \/ \E t \in Threads, alloc_ok \in BOOLEAN : side_events_register(t, 1, alloc_ok)
  \/ \E t \in Threads, b \in {1, NULL} : side_events_unregister(t, b)
  \/ \E t \in Threads : side_exit(t)
  \/ shared_bit_toggle("e0", SIDE_EVENT_ENABLED_SHARED_PTRACE_MASK)

Spec == Init /\ [][Next]_vars

(***************************************************************************)
(* Claims on the callback core                                             *)
(***************************************************************************)
Occurrences(s, x) == Cardinality({i \in 1..Len(s) : s[i] = x})
KeyMatches(K, C) ==
  K = SIDE_KEY_MATCH_ALL \/ C = SIDE_KEY_MATCH_ALL \/ C = K
\* An emit on event e with the given key, through the call shape of e.
EmitStep(e, key) ==
  \E t \in Threads : dispatch(t, e, SIDE_EVENT_FLAG_VARIADIC(e), key)

\* C1 (key filter): an emit with key K on an initialized, non-finalized
\* library invokes every entry currently registered on the event exactly
\* once if K = 0 or C = 0 or C = K (C the entry's key), and does not invoke
\* it otherwise.
C1_KeyFilter ==
  [][\A e \in Events, key \in EmitKeys :
       (op' = "emit" /\ initialized /\ ~finalized /\ EmitStep(e, key))
       => \A x \in Range(registered[e]) :
            Occurrences(invoked', x) =
              IF KeyMatches(key, x.key) THEN Occurrences(registered[e], x) ELSE 0
    ]_vars

\* C2 (accounting): whenever the registry mutex is free, nr_callbacks of
\* every event equals the number of entries reachable from its callbacks
\* pointer before the first entry with a null function pointer.
C2_Accounting ==
  event_lock = MutexFree =>
    \A e \in Events :
      es[e].nr_callbacks = Len(VectorEntries(mem[es[e].callbacks].bytes, 0))

\* C3 (enable parity): whenever the registry mutex is free, the private part
\* of enabled is 1 if nr_callbacks > 0 and 0 if nr_callbacks = 0; and the
\* private part changes by +1 only when nr_callbacks goes from 0 to 1, by -1
\* only when nr_callbacks goes to 0, and in no other way.
C3_EnableParity ==
  /\ [](event_lock = MutexFree =>
          \A e \in Events :
            EnabledPrivate(es[e].enabled) = IF es[e].nr_callbacks > 0 THEN 1 ELSE 0)
  /\ [][\A e \in Events :
          LET before == EnabledPrivate(es[e].enabled)
              after == EnabledPrivate(es'[e].enabled)
          IN after # before =>
               \/ after = before + 1 /\ es[e].nr_callbacks = 0 /\ es'[e].nr_callbacks = 1
               \/ after = before - 1 /\ es[e].nr_callbacks > 0 /\ es'[e].nr_callbacks = 0
       ]_vars

\* C3 witness: two callbacks are counted on e0, its private count is 1 and a
\* shared bit is set.
C3_Witness ==
  /\ es["e0"].nr_callbacks = 2
  /\ EnabledPrivate(es["e0"].enabled) = 1
  /\ EnabledShared(es["e0"].enabled) # 0

\* The entries of an event's vector, and calls of the register and
\* unregister entry points with a given triple.
Present(e, x) == x \in Range(VectorEntries(mem[es[e].callbacks].bytes, 0))
RegisterStep(e, variadic_api, x) ==
  \E t \in Threads, alloc_ok \in BOOLEAN :
    side_tracer_callback_register(t, e, variadic_api, x.call, x.priv, x.key, alloc_ok)
UnregisterStep(e, variadic_api, x) ==
  \E t \in Threads, alloc_ok \in BOOLEAN :
    side_tracer_callback_unregister(t, e, variadic_api, x.call, x.priv, x.key, alloc_ok)
\* A call that gets past the checks made before the vector is looked up.
Admitted(e, variadic_api, x) ==
  /\ SIDE_EVENT_FLAG_VARIADIC(e) = variadic_api
  /\ x.call # NULL
  /\ ~finalized

SentinelIntact ==
  mem[side_empty_callback] = [live |-> TRUE, bytes |-> Zeros(SizeofCallback)]

\* Unregister of x on e answered NoEntry and changed no state.
AnsweredNoEntry ==
  ret' = SIDE_ERROR_NOENT /\ es' = es /\ mem' = mem
\* Unregister on e answered Ok, allocated nothing and left the event on the
\* shared empty sentinel with no callback counted.
AnsweredLast(e) ==
  /\ ret' = SIDE_ERROR_OK
  /\ FreeBlocks(mem) \subseteq FreeBlocks(mem')
  /\ es'[e].callbacks = side_empty_callback
  /\ es'[e].nr_callbacks = 0

\* C7 as stated (through the entry point matching the event's VARIADIC flag):
\* unregistering a triple that is not in the event's vector
\* returns NoEntry and changes no state; unregistering the only remaining
\* entry returns Ok without allocating and leaves callbacks at the shared
\* empty sentinel with nr_callbacks = 0; the sentinel is never freed or
\* written. (Written as: a step that answers otherwise is no such call.)
C7_Original ==
  /\ []SentinelIntact
  /\ [][op' = "unregister" =>
          \A e \in Events, variadic_api \in BOOLEAN :
            \A x \in ApiTriples(e, variadic_api) :
              /\ (/\ ~Present(e, x)
                  /\ SIDE_EVENT_FLAG_VARIADIC(e) = variadic_api
                  /\ ~AnsweredNoEntry)
                   => ~UnregisterStep(e, variadic_api, x)
              /\ (/\ VectorEntries(mem[es[e].callbacks].bytes, 0) = <<x>>
                  /\ SIDE_EVENT_FLAG_VARIADIC(e) = variadic_api
                  /\ ~AnsweredLast(e))
                   => ~UnregisterStep(e, variadic_api, x)
       ]_vars

\* C7 amended: on a non-finalized library, through the entry point matching
\* the event's VARIADIC flag and with a non-null function pointer,
\* unregistering a triple that is not in the event's vector returns NoEntry
\* and changes no state; unregistering the only remaining entry returns Ok
\* without allocating and leaves callbacks at the shared empty sentinel with
\* nr_callbacks = 0; the sentinel is never freed or written.
\* (Written as: a step that answers otherwise is no such call.)
C7_Unregister ==
  /\ []SentinelIntact
  /\ [][op' = "unregister" =>
          \A e \in Events, variadic_api \in BOOLEAN :
            \A x \in ApiTriples(e, variadic_api) :
              /\ (/\ ~Present(e, x)
                  /\ Admitted(e, variadic_api, x)
                  /\ ~AnsweredNoEntry)
                   => ~UnregisterStep(e, variadic_api, x)
              /\ (/\ VectorEntries(mem[es[e].callbacks].bytes, 0) = <<x>>
                  /\ Admitted(e, variadic_api, x)
                  /\ ~AnsweredLast(e))
                   => ~UnregisterStep(e, variadic_api, x)
       ]_vars

\* C7 witness: the only entry of e0 was unregistered while ev still holds a
\* callback.
C7_Witness ==
  /\ op = "unregister"
  /\ ret = SIDE_ERROR_OK
  /\ es["e0"].callbacks = side_empty_callback
  /\ es["e0"].nr_callbacks = 0
  /\ es["ev"].nr_callbacks = 1

\* C8 (allocation failure is atomic): a register or unregister call that
\* returns NoMemory leaves callbacks, nr_callbacks and enabled of every event
\* and the heap as they were and the registry mutex released; and a call in
\* which the allocator fails returns NoMemory unless it was rejected before
\* or needed no allocation (last entry removed: the sentinel is published).
\* (Second part written as: a step that answers otherwise is no call with a
\* failing allocator.)
C8_AllocFailure ==
  [][op' \in {"register", "unregister"} =>
       /\ ret' = SIDE_ERROR_NOMEM =>
            es' = es /\ mem' = mem /\ event_lock' = MutexFree
       /\ \A e \in Events, variadic_api \in BOOLEAN, t \in Threads :
            \A x \in ApiTriples(e, variadic_api) :
              /\ (/\ op' = "register"
                  /\ ret' \notin {SIDE_ERROR_NOMEM, SIDE_ERROR_INVAL,
                                  SIDE_ERROR_EXITING, SIDE_ERROR_EXIST})
                   => ~side_tracer_callback_register(t, e, variadic_api, x.call,
                                                     x.priv, x.key, FALSE)
              /\ (/\ op' = "unregister"
                  /\ ret' \notin {SIDE_ERROR_NOMEM, SIDE_ERROR_INVAL,
                                  SIDE_ERROR_EXITING, SIDE_ERROR_NOENT}
                  /\ es'[e].callbacks # side_empty_callback)
                   => ~side_tracer_callback_unregister(t, e, variadic_api, x.call,
                                                       x.priv, x.key, FALSE)
    ]_vars

\* C8 witness: an unregister call failed to allocate with two callbacks
\* counted on e0.
C8_Witness ==
  /\ op = "unregister"
  /\ ret = SIDE_ERROR_NOMEM
  /\ es["e0"].nr_callbacks = 2
  /\ event_lock = MutexFree

\* The results the claimed order of checks allows for a register call.
RegisterAnswers(e, variadic_api, x) ==
  IF SIDE_EVENT_FLAG_VARIADIC(e) # variadic_api \/ x.call = NULL
  THEN {SIDE_ERROR_INVAL}
  ELSE IF finalized THEN {SIDE_ERROR_EXITING}
  ELSE IF es[e].nr_callbacks = UINT32_MAX THEN {SIDE_ERROR_INVAL}
  ELSE IF Present(e, x) THEN {SIDE_ERROR_EXIST}
  ELSE {SIDE_ERROR_OK, SIDE_ERROR_NOMEM}

\* C9 (rejection order of callback register): a call through the entry point
\* that does not match the event's VARIADIC flag, or with a null function
\* pointer, returns Invalid; otherwise a finalized library returns Exiting;
\* otherwise nr_callbacks at its maximum returns Invalid; otherwise a triple
\* found in the vector returns Exists. Every rejected call leaves the event
\* state unchanged and the registry mutex released. (First part written as:
\* a step with another result is no such register call.)
C9_RejectionOrder ==
  [][op' = "register" =>
       /\ ret' # SIDE_ERROR_OK => es' = es /\ mem' = mem /\ event_lock' = MutexFree
       /\ \A e \in Events, variadic_api \in BOOLEAN :
            \A x \in ApiTriples(e, variadic_api) :
              ret' \notin RegisterAnswers(e, variadic_api, x)
                => ~RegisterStep(e, variadic_api, x)
    ]_vars

\* C9 witness: a register call was rejected on a live library whose event e0
\* counts the maximum number of callbacks.
C9_Witness ==
  /\ op = "register"
  /\ ret = SIDE_ERROR_INVAL
  /\ ~finalized
  /\ es["e0"].nr_callbacks = UINT32_MAX

(***************************************************************************)
(* Emit and callback registration step by step                             *)
(*                                                                         *)
(* Emitters run _side_call one line at a time while a tracer runs          *)
(* _side_tracer_callback_register / _unregister, which block in            *)
(* side_rcu_wait_grace_period with side_event_lock held.                   *)
(***************************************************************************)
\* side_rcu_read_begin(&event_rcu_gp, ...)
side_rcu_read_begin(readers, t) == readers \cup {t}
\* side_rcu_read_end(&event_rcu_gp, ...)
side_rcu_read_end(readers, t) == readers \ {t}
\* side_rcu_wait_grace_period(&event_rcu_gp) returns when every read section
\* that began before the call has ended.
side_rcu_wait_grace_period_returns(waiting) == waiting = {}

\* A reader that leaves its read section is no longer waited for.
ReaderLeft(f, t) == [w \in RcuThreads |-> [f[w] EXCEPT !.pre = @ \ {t}]]

\* _side_call lines 179-197: the finalized and initialized checks, the
\* assert on the VARIADIC flag, the shared enable bits (side_ptrace_hook is
\* empty), side_rcu_read_begin.
side_call_enter(t, e, variadic_api, key) ==
  /\ ~crashed
  /\ pc[t] = "idle"
  /\ op' = "emit_enter"
  /\ IF finalized
     THEN UNCHANGED <<initialized, crashed, pc, frame, rcu_readers>>
     ELSE /\ initialized' = TRUE
          /\ IF SIDE_EVENT_FLAG_VARIADIC(e) # variadic_api
             THEN crashed' = TRUE /\ UNCHANGED <<pc, frame, rcu_readers>>
             ELSE /\ rcu_readers' = side_rcu_read_begin(rcu_readers, t)
                  /\ pc' = [pc EXCEPT ![t] = "dereference"]
                  /\ frame' = [frame EXCEPT ![t] = [NoFrame EXCEPT !.fn = "emit",
                                                                   !.e = e, !.key = key]]
                  /\ UNCHANGED crashed
  /\ UNCHANGED <<finalized, es, mem, event_lock, events_list, tracer_list,
                 tracer_view, ret, invoked, registered, gp_wait, removed, sdVars,
                 extVars>>

\* side_cb = side_rcu_dereference(es0->callbacks)
side_call_dereference(t) ==
  /\ ~crashed
  /\ pc[t] = "dereference"
  /\ op' = "emit_dereference"
  /\ frame' = [frame EXCEPT ![t].cb = es[frame[t].e].callbacks, ![t].i = 0]
  /\ pc' = [pc EXCEPT ![t] = "loop"]
  /\ UNCHANGED <<initialized, finalized, es, mem, event_lock, events_list,
                 tracer_list, tracer_view, ret, invoked, crashed, registered,
                 rcu_readers, gp_wait, removed, sdVars,
                 extVars>>

\* One test of the loop condition side_cb->u.call != NULL, the key filter and
\* the call of side_cb->u.call. Reading a freed vector and calling through a
\* pointer that is no function are undefined: the thread faults, or the read
\* finds a null pointer / the call returns.
side_call_loop(t) ==
  /\ ~crashed
  /\ pc[t] = "loop"
  /\ op' = "emit_loop"
  /\ LET f == frame[t]
         b == mem[f.cb].bytes
         next == [frame EXCEPT ![t].i = @ + 1]
     IN IF ~mem[f.cb].live
        THEN \E ub \in UBOutcomes :
               IF ub = "fault"
               THEN crashed' = TRUE /\ UNCHANGED <<pc, frame>>
               ELSE /\ pc' = [pc EXCEPT ![t] = "read_end"]
                    /\ UNCHANGED <<crashed, frame>>
        ELSE IF CbCall(b, f.i) = NULL
        THEN /\ pc' = [pc EXCEPT ![t] = "read_end"]
             /\ UNCHANGED <<crashed, frame>>
        ELSE IF /\ f.key # SIDE_KEY_MATCH_ALL
                /\ CbKey(b, f.i) # SIDE_KEY_MATCH_ALL
                /\ CbKey(b, f.i) # f.key
        THEN frame' = next /\ UNCHANGED <<crashed, pc>>
        ELSE IF CbCall(b, f.i) \notin Calls
        THEN \E ub \in UBOutcomes :
               IF ub = "fault"
               THEN crashed' = TRUE /\ UNCHANGED <<pc, frame>>
               ELSE frame' = next /\ UNCHANGED <<crashed, pc>>
        ELSE /\ frame' = [frame EXCEPT ![t].x =
                            Triple(CbCall(b, f.i), CbPriv(b, f.i), CbKey(b, f.i))]
             /\ pc' = [pc EXCEPT ![t] = "callback"]
             /\ UNCHANGED crashed
  /\ UNCHANGED <<initialized, finalized, es, mem, event_lock, events_list,
                 tracer_list, tracer_view, ret, invoked, registered,
                 rcu_readers, gp_wait, removed, sdVars,
                 extVars>>

\* The tracer callback returns; side_cb++.
side_call_callback_return(t) ==
  /\ ~crashed
  /\ pc[t] = "callback"
  /\ op' = "emit_callback_return"
  /\ frame' = [frame EXCEPT ![t].i = @ + 1]
  /\ pc' = [pc EXCEPT ![t] = "loop"]
  /\ UNCHANGED <<initialized, finalized, es, mem, event_lock, events_list,
                 tracer_list, tracer_view, ret, invoked, crashed, registered,
                 rcu_readers, gp_wait, removed, sdVars,
                 extVars>>

\* side_rcu_read_end(&event_rcu_gp, &rcu_read_state); return.
side_call_leave(t) ==
  /\ ~crashed
  /\ pc[t] = "read_end"
  /\ op' = "emit_leave"
  /\ rcu_readers' = side_rcu_read_end(rcu_readers, t)
  /\ gp_wait' = gp_wait \ {t}
  /\ frame' = [ReaderLeft(frame, t) EXCEPT ![t] = NoFrame]
  /\ pc' = [pc EXCEPT ![t] = "idle"]
  /\ UNCHANGED <<initialized, finalized, es, mem, event_lock, events_list,
                 tracer_list, tracer_view, ret, invoked, crashed, registered,
                 removed, sdVars,
                 extVars>>

\* What follows side_rcu_assign_pointer(es0->callbacks, new_cb) in register:
\* side_rcu_wait_grace_period(&event_rcu_gp).
register_after_publish_free(published) ==
  IF published THEN "finish" ELSE "idle"
register_after_publish(published) ==
  IF published THEN "wait_grace_period" ELSE "idle"
\* What follows side_rcu_assign_pointer(es0->callbacks, new_cb) in unregister.
unregister_after_publish_free(published) ==
  IF published THEN "finish" ELSE "idle"
unregister_after_publish(published) ==
  IF published THEN "wait_grace_period" ELSE "idle"

\* side_tracer_callback_register / side_tracer_callback_variadic_register up
\* to and including side_rcu_assign_pointer, or up to the return of a
\* rejected call.
callback_register_enter(t, e, variadic_api, call, priv, key, alloc_ok) ==
  /\ ~crashed
  /\ pc[t] = "idle"
  /\ op' = "register_enter"
  /\ IF SIDE_EVENT_FLAG_VARIADIC(e) # variadic_api
     THEN /\ ret' = SIDE_ERROR_INVAL
          /\ UNCHANGED <<initialized, es, mem, event_lock, pc, frame, removed>>
     ELSE IF entry_checks(call) # SIDE_ERROR_OK
     THEN /\ ret' = entry_checks(call)
          /\ UNCHANGED <<initialized, es, mem, event_lock, pc, frame, removed>>
     ELSE /\ MutexCanLock(event_lock, t)
          /\ initialized' = TRUE
          /\ LET locked == pthread_mutex_lock(event_lock, t)
                 p == register_publish(Protected, e, call, priv, key, alloc_ok)
             IN /\ es' = p.st.es
                /\ mem' = p.st.mem
                /\ pc' = [pc EXCEPT ![t] = register_after_publish(p.published)]
                /\ IF p.published
                   THEN /\ event_lock' = locked
                        /\ frame' = [frame EXCEPT ![t] =
                                       [NoFrame EXCEPT !.fn = "register", !.e = e,
                                                       !.x = Triple(call, priv, key),
                                                       !.cb = p.old_cb,
                                                       !.i = p.old_nr_cb,
                                                       !.pre = rcu_readers]]
                        /\ removed' = [removed EXCEPT ![e] = @ \ {Triple(call, priv, key)}]
                        /\ UNCHANGED ret
                   ELSE /\ event_lock' = pthread_mutex_unlock(locked)
                        /\ ret' = p.ret
                        /\ UNCHANGED <<frame, removed>>
  /\ UNCHANGED <<finalized, events_list, tracer_list, tracer_view, invoked, crashed,
                 registered, rcu_readers, gp_wait, sdVars,
                 extVars>>

\* side_tracer_callback_unregister / side_tracer_callback_variadic_unregister
\* up to and including side_rcu_assign_pointer, or up to the return of a
\* rejected call.
callback_unregister_enter(t, e, variadic_api, call, priv, key, alloc_ok) ==
  /\ ~crashed
  /\ pc[t] = "idle"
  /\ op' = "unregister_enter"
  /\ IF SIDE_EVENT_FLAG_VARIADIC(e) # variadic_api
     THEN /\ ret' = SIDE_ERROR_INVAL
          /\ UNCHANGED <<initialized, es, mem, event_lock, pc, frame>>
     ELSE IF entry_checks(call) # SIDE_ERROR_OK
     THEN /\ ret' = entry_checks(call)
          /\ UNCHANGED <<initialized, es, mem, event_lock, pc, frame>>
     ELSE /\ MutexCanLock(event_lock, t)
          /\ initialized' = TRUE
          /\ LET locked == pthread_mutex_lock(event_lock, t)
                 p == unregister_publish(Protected, e, call, priv, key, alloc_ok)
             IN /\ es' = p.st.es
                /\ mem' = p.st.mem
                /\ pc' = [pc EXCEPT ![t] = unregister_after_publish(p.published)]
                /\ IF p.published
                   THEN /\ event_lock' = locked
                        /\ frame' = [frame EXCEPT ![t] =
                                       [NoFrame EXCEPT !.fn = "unregister", !.e = e,
                                                       !.x = Triple(call, priv, key),
                                                       !.cb = p.old_cb,
                                                       !.i = p.old_nr_cb,
                                                       !.pre = rcu_readers]]
                        /\ UNCHANGED ret
                   ELSE /\ event_lock' = pthread_mutex_unlock(locked)
                        /\ ret' = p.ret
                        /\ UNCHANGED frame
  /\ UNCHANGED <<finalized, events_list, tracer_list, tracer_view, invoked, crashed,
                 registered, rcu_readers, gp_wait, removed, sdVars,
                 extVars>>

\* side_rcu_wait_grace_period(&event_rcu_gp) is called: the read sections in
\* progress are the ones it waits for.
side_rcu_wait_grace_period_call(t) ==
  /\ ~crashed
  /\ pc[t] = "wait_grace_period"
  /\ op' = "wait_grace_period"
  /\ gp_wait' = rcu_readers
  /\ pc' = [pc EXCEPT ![t] = "grace_period"]
  /\ UNCHANGED <<initialized, finalized, es, mem, event_lock, events_list,
                 tracer_list, tracer_view, ret, invoked, crashed, registered,
                 frame, rcu_readers, removed, sdVars,
                 extVars>>

\* side_rcu_wait_grace_period(&event_rcu_gp) returns.
side_rcu_wait_grace_period_return(t) ==
  /\ ~crashed
  /\ pc[t] = "grace_period"
  /\ side_rcu_wait_grace_period_returns(gp_wait)
  /\ op' = "grace_period_end"
  /\ pc' = [pc EXCEPT ![t] = "finish"]
  /\ UNCHANGED <<initialized, finalized, es, mem, event_lock, events_list,
                 tracer_list, tracer_view, ret, invoked, crashed, registered,
                 frame, rcu_readers, gp_wait, removed, sdVars,
                 extVars>>

\* Register after the grace period: free(old_cb) unless it is the empty
\* sentinel, nr_callbacks++, enabled, unlock, return SIDE_ERROR_OK.
callback_register_leave(t) ==
  /\ ~crashed
  /\ pc[t] = "finish"
  /\ frame[t].fn = "register"
  /\ op' = "register"
  /\ LET f == register_finish(Protected, frame[t].e, frame[t].cb, frame[t].i)
     IN es' = f.es /\ mem' = f.mem
  /\ event_lock' = pthread_mutex_unlock(event_lock)
  /\ ret' = SIDE_ERROR_OK
  /\ registered' = [registered EXCEPT ![frame[t].e] = Append(@, frame[t].x)]
  /\ pc' = [pc EXCEPT ![t] = "idle"]
  /\ frame' = [frame EXCEPT ![t] = NoFrame]
  /\ UNCHANGED <<initialized, finalized, events_list, tracer_list, tracer_view,
                 invoked, crashed, rcu_readers, gp_wait, removed, sdVars,
                 extVars>>

\* Unregister after the grace period: free(old_cb), nr_callbacks--, enabled,
\* unlock, return SIDE_ERROR_OK.
callback_unregister_leave(t) ==
  /\ ~crashed
  /\ pc[t] = "finish"
  /\ frame[t].fn = "unregister"
  /\ op' = "unregister"
  /\ LET f == unregister_finish(Protected, frame[t].e, frame[t].cb, frame[t].i)
     IN es' = f.es /\ mem' = f.mem
  /\ event_lock' = pthread_mutex_unlock(event_lock)
  /\ ret' = SIDE_ERROR_OK
  /\ registered' = [registered EXCEPT ![frame[t].e] = RemoveFirst(@, frame[t].x)]
  /\ removed' = [removed EXCEPT ![frame[t].e] = @ \cup {frame[t].x}]
  /\ pc' = [pc EXCEPT ![t] = "idle"]
  /\ frame' = [frame EXCEPT ![t] = NoFrame]
  /\ UNCHANGED <<initialized, finalized, events_list, tracer_list, tracer_view,
                 invoked, crashed, rcu_readers, gp_wait, sdVars,
                 extVars>>

\* Triples the tracer of the step-level specification uses.
RcuTriples == {Triple(FnA, NULL, SIDE_KEY_MATCH_ALL), Triple(FnB, NULL, 9)}
\* Keys the emitters of the step-level specification use.
RcuEmitKeys == {SIDE_KEY_MATCH_ALL, 7}

NextRcu ==
  \/ \E t \in RcuReaders, key \in RcuEmitKeys : side_call_enter(t, "e0", FALSE, key)
  \/ \E t \in RcuReaders :
       \/ side_call_dereference(t)
       \/ side_call_loop(t)
       \/ side_call_callback_return(t)
       \/ side_call_leave(t)
  \/ \E t \in RcuWriters, x \in RcuTriples, alloc_ok \in BOOLEAN :
       \/ callback_register_enter(t, "e0", FALSE, x.call, x.priv, x.key, alloc_ok)
       \/ callback_unregister_enter(t, "e0", FALSE, x.call, x.priv, x.key, alloc_ok)
  \/ \E t \in RcuWriters :
       \/ side_rcu_wait_grace_period_call(t)
       \/ side_rcu_wait_grace_period_return(t)
       \/ callback_register_leave(t)
       \/ callback_unregister_leave(t)

SpecRcu == Init /\ [][NextRcu]_vars

\* An emit that has loaded the callbacks pointer and is still inside its
\* read section.
HoldsVector(t) == pc[t] \in {"loop", "callback", "read_end"}

\* C4 (safe free): a callback vector is never freed while an emit that loaded
\* its address is still inside its RCU read section; a vector is freed only
\* by a register or unregister call that has published another pointer and
\* waited until every read section in progress at the publication has ended.
C4_SafeFree ==
  /\ [](\A t \in RcuReaders : HoldsVector(t) => mem[frame[t].cb].live)
  /\ [][\A a \in HeapAddrs :
          (mem[a].live /\ ~mem'[a].live) =>
            \E w \in RcuWriters :
              /\ pc[w] = "finish"
              /\ frame[w].cb = a
              /\ frame[w].pre = {}
              /\ es[frame[w].e].callbacks # a
       ]_vars

\* C4 witness: the tracer waits in the grace period for an emit that holds
\* the heap vector about to be freed.
C4_Witness ==
  \E w \in RcuWriters, t \in RcuReaders :
    /\ pc[w] = "grace_period"
    /\ t \in gp_wait
    /\ pc[t] \in {"loop", "callback"}
    /\ frame[w].cb # side_empty_callback
    /\ frame[t].cb = frame[w].cb

\* C5 (unregister quiescence): once unregister has returned Ok for a triple
\* on an event, no emit on that event is executing the callback of that
\* entry and none has it ahead in the vector it iterates; the emits that
\* were in their read section when the new vector was published have left it
\* when unregister returns.
C5_Quiescence ==
  /\ [](\A t \in RcuReaders :
          frame[t].fn = "emit" =>
            \A x \in removed[frame[t].e] :
              /\ pc[t] = "callback" => frame[t].x # x
              /\ (pc[t] \in {"loop", "callback"} /\ mem[frame[t].cb].live) =>
                   x \notin Range(VectorEntries(mem[frame[t].cb].bytes, frame[t].i)))
  /\ [][\A w \in RcuWriters :
          (op' = "unregister" /\ pc[w] = "finish" /\ pc'[w] = "idle") =>
            frame[w].pre = {}
       ]_vars

\* C5 witness: after unregister returned Ok for a triple, an emit iterates
\* the heap vector published since.
C5_Witness ==
  \E t \in RcuReaders :
    /\ pc[t] = "loop"
    /\ frame[t].cb # side_empty_callback
    /\ removed[frame[t].e] # {}

(***************************************************************************)
(* State dump requests. Handles are registered in polling mode; every call *)
(* runs to completion before the next one starts.                          *)
(***************************************************************************)
coreFrame == <<es, mem, event_lock, events_list, tracer_list, tracer_view,
               crashed, registered, rcuVars, extVars>>

\* queue_statedump_pending that queues no initial notification.
queue_statedump_pending_no_initial(st, h, key, alloc_ok) ==
  IF st.crashed THEN st
  ELSE IF ~alloc_ok THEN [st EXCEPT !.crashed = TRUE]
  ELSE IF key = SIDE_KEY_MATCH_ALL THEN st
  ELSE [st EXCEPT !.q[h].queue = Append(@, key)]

\* pthread_cond_broadcast: the threads of waiters that sleep in
\* pthread_cond_wait wake up and go for the mutex.
pthread_cond_broadcast(frames, waiters) ==
  [t \in SdThreads |->
     IF t \in waiters /\ frames[t].pc = "cond_wait"
     THEN [frames[t] EXCEPT !.pc = "cond_wake"] ELSE frames[t]]

\* queue_statedump_pending without the broadcast of worker_cond.
queue_statedump_pending_no_broadcast(st, h, key, alloc_ok) ==
  IF st.crashed THEN st
  ELSE IF ~alloc_ok THEN [st EXCEPT !.crashed = TRUE]
  ELSE LET queued == [st EXCEPT !.q[h].queue = Append(@, key)]
       IN IF st.q[h].mode = SIDE_STATEDUMP_MODE_AGENT_THREAD
          THEN [queued EXCEPT
                  !.state = @ \cup {AGENT_THREAD_STATE_HANDLE_REQUEST}]
          ELSE queued

\* static void queue_statedump_pending(handle, key);
\* st = [q, crashed, state, frames]: the handles, whether the process
\* aborted, statedump_agent_thread.state and the threads' positions.
\* A failed calloc of the notification aborts.
queue_statedump_pending(st, h, key, alloc_ok) ==
  IF st.crashed THEN st
  ELSE IF ~alloc_ok THEN [st EXCEPT !.crashed = TRUE]
  ELSE LET queued == [st EXCEPT !.q[h].queue = Append(@, key)]
       IN IF st.q[h].mode = SIDE_STATEDUMP_MODE_AGENT_THREAD
          THEN [queued EXCEPT
                  !.state = @ \cup {AGENT_THREAD_STATE_HANDLE_REQUEST},
                  !.frames = pthread_cond_broadcast(@, {AgentThread})]
          ELSE queued

\* An unqueue that removes every notification.
UnqueueKey_all(q, key) == <<>>

\* static void unqueue_statedump_pending(handle, key)
RECURSIVE UnqueueKey(_, _)
UnqueueKey(q, key) ==
  IF q = <<>> THEN <<>>
  ELSE IF key = SIDE_KEY_MATCH_ALL \/ key = Head(q) THEN UnqueueKey(Tail(q), key)
  ELSE <<Head(q)>> \o UnqueueKey(Tail(q), key)
unqueue_statedump_pending(q, h, key) ==
  [q EXCEPT ![h].queue = UnqueueKey(@, key)]

\* side_statedump_event_call(event, &notif->key, ...): the calls an emit of
\* the library's own event makes.
side_statedump_event_call(e, key) ==
  IF finalized THEN <<>> ELSE CallLoop(mem[es[e].callbacks].bytes, 0, key)

\* side_statedump_run with the callback invoked before the begin event.
side_statedump_run_cb_first(h, key) ==
  <<[call |-> StatedumpCb(h), priv |-> NULL, key |-> key]>>
    \o side_statedump_event_call("side_statedump_begin", key)
    \o side_statedump_event_call("side_statedump_end", key)

\* static void side_statedump_run(handle, notif)
side_statedump_run(h, key) ==
  side_statedump_event_call("side_statedump_begin", key)
    \o <<[call |-> StatedumpCb(h), priv |-> NULL, key |-> key]>>
    \o side_statedump_event_call("side_statedump_end", key)

\* side_list_for_each_entry(notif, &tmp_head, node) side_statedump_run(handle, notif);
RECURSIVE RunAll(_, _)
RunAll(h, q) ==
  IF q = <<>> THEN <<>> ELSE side_statedump_run(h, Head(q)) \o RunAll(h, Tail(q))

\* struct side_statedump_request_handle *
\* side_statedump_request_notification_register(state_name, statedump_cb, mode)
\* called for a handle h the allocator has not handed out; ret is the handle.
side_statedump_request_notification_register(t, h, mode, alloc) ==
  /\ ~crashed
  /\ ~sd_handle[h].allocated
  /\ mode = SIDE_STATEDUMP_MODE_POLLING
  /\ op' = "side_statedump_request_notification_register"
  /\ invoked' = <<>>
  /\ IF finalized
     THEN ret' = NULL /\ UNCHANGED <<initialized, crashed, statedump_list, sd_handle>>
     ELSE /\ initialized' = TRUE
          /\ IF alloc = "handle_nomem"
             THEN ret' = NULL /\ UNCHANGED <<crashed, statedump_list, sd_handle>>
             ELSE /\ MutexCanLock(statedump_lock, t)
                  /\ LET linked == [sd_handle EXCEPT ![h] =
                                      [NoHandle EXCEPT !.allocated = TRUE, !.mode = mode]]
                         r == queue_statedump_pending(
                                [q |-> linked, crashed |-> FALSE,
                                 state |-> agent_thread.state, frames |-> sd_frame],
                                h, SIDE_KEY_MATCH_ALL, alloc = "ok")
                     IN /\ sd_handle' = r.q
                        /\ crashed' = r.crashed
                        /\ statedump_list' = Append(statedump_list, h)
                        /\ ret' = h
  /\ UNCHANGED <<finalized, es, mem, event_lock, events_list, tracer_list, tracer_view,
                 registered, rcuVars, extVars, statedump_lock, side_key_next, key_out>>

\* void side_statedump_request_notification_unregister(handle), handle valid.
side_statedump_request_notification_unregister(t, h) ==
  /\ ~crashed
  /\ sd_handle[h].allocated
  /\ op' = "side_statedump_request_notification_unregister"
  /\ IF finalized
     THEN UNCHANGED <<initialized, statedump_list, sd_handle>>
     ELSE /\ initialized' = TRUE
          /\ MutexCanLock(statedump_lock, t)
          /\ statedump_list' = Without(statedump_list, h)
          /\ sd_handle' = [sd_handle EXCEPT ![h] = NoHandle]
  /\ ReturnVoid
  /\ UNCHANGED <<finalized, coreFrame, statedump_lock, side_key_next, key_out>>

\* bool side_statedump_poll_pending_requests(handle), handle valid.
side_statedump_poll_pending_requests(t, h) ==
  /\ ~crashed
  /\ sd_handle[h].allocated
  /\ op' = "side_statedump_poll_pending_requests"
  /\ invoked' = <<>>
  /\ IF sd_handle[h].mode # SIDE_STATEDUMP_MODE_POLLING
     THEN ret' = 0
     ELSE /\ MutexCanLock(statedump_lock, t)
          /\ ret' = IF sd_handle[h].queue # <<>> THEN 1 ELSE 0
  /\ UNCHANGED <<initialized, finalized, coreFrame, sdVars>>

\* int side_statedump_run_pending_requests(handle), handle valid. A call
\* through a pointer that is no function is undefined: it faults, or returns.
side_statedump_run_pending_requests(t, h) ==
  /\ ~crashed
  /\ sd_handle[h].allocated
  /\ op' = "side_statedump_run_pending_requests"
  /\ IF sd_handle[h].mode # SIDE_STATEDUMP_MODE_POLLING
     THEN /\ Return(SIDE_ERROR_INVAL)
          /\ UNCHANGED <<initialized, crashed, sd_handle>>
     ELSE /\ MutexCanLock(statedump_lock, t)
          /\ sd_handle' = [sd_handle EXCEPT ![h].queue = <<>>]
          /\ initialized' = (initialized \/ (~finalized /\ sd_handle[h].queue # <<>>))
          /\ LET calls == RunAll(h, sd_handle[h].queue)
             IN \E ub \in IF ValidPrefix(calls) = calls THEN {"return"} ELSE UBOutcomes :
                  IF ub = "fault"
                  THEN invoked' = ValidPrefix(calls) /\ crashed' = TRUE
                  ELSE invoked' = calls /\ crashed' = FALSE
          /\ ret' = SIDE_ERROR_OK
  /\ UNCHANGED <<finalized, es, mem, event_lock, events_list, tracer_list, tracer_view,
                 registered, rcuVars, extVars, statedump_list, statedump_lock, side_key_next,
                 key_out>>

\* side_list_for_each_entry(handle, &side_statedump_list, node)
\*         queue_statedump_pending(handle, key);
RECURSIVE queue_all(_, _, _, _)
queue_all(st, handles, key, alloc_ok) ==
  IF handles = <<>> THEN st
  ELSE queue_all(queue_statedump_pending(st, Head(handles), key, alloc_ok),
                 Tail(handles), key, alloc_ok)

\* side_list_for_each_entry(handle, &side_statedump_list, node)
\*         unqueue_statedump_pending(handle, key);
RECURSIVE unqueue_all(_, _, _)
unqueue_all(q, handles, key) ==
  IF handles = <<>> THEN q
  ELSE unqueue_all(unqueue_statedump_pending(q, Head(handles), key), Tail(handles), key)

\* int side_tracer_statedump_request(uint64_t key): side_statedump_lock is
\* locked before the loop and locked again after it.
side_tracer_statedump_request(t, key, alloc_ok) ==
  /\ ~crashed
  /\ op' = "side_tracer_statedump_request"
  /\ IF key = SIDE_KEY_MATCH_ALL
     THEN /\ Return(SIDE_ERROR_INVAL)
          /\ UNCHANGED <<crashed, sd_handle, statedump_lock, agent_thread, sd_frame>>
     ELSE /\ MutexCanLock(statedump_lock, t)
          /\ LET r == queue_all([q |-> sd_handle, crashed |-> FALSE,
                                 state |-> agent_thread.state, frames |-> sd_frame],
                                statedump_list, key, alloc_ok)
             IN /\ sd_handle' = r.q
                /\ crashed' = r.crashed
                /\ agent_thread' = [agent_thread EXCEPT !.state = r.state]
                /\ sd_frame' = r.frames
          /\ statedump_lock' =
               pthread_mutex_lock(pthread_mutex_lock(statedump_lock, t), t)
          /\ Return(SIDE_ERROR_OK)
  /\ UNCHANGED <<initialized, finalized, es, mem, event_lock, events_list, tracer_list,
                 tracer_view, registered, rcuVars, statedump_list, side_key_next,
                 key_out, keyVars, side_agent_thread_lock, delivered>>

\* int side_tracer_statedump_request_cancel(uint64_t key): side_statedump_lock
\* is locked before the loop and locked again after it.
side_tracer_statedump_request_cancel(t, key) ==
  /\ ~crashed
  /\ op' = "side_tracer_statedump_request_cancel"
  /\ IF key = SIDE_KEY_MATCH_ALL
     THEN /\ Return(SIDE_ERROR_INVAL)
          /\ UNCHANGED <<sd_handle, statedump_lock>>
     ELSE /\ MutexCanLock(statedump_lock, t)
          /\ sd_handle' = unqueue_all(sd_handle, statedump_list, key)
          /\ statedump_lock' =
               pthread_mutex_lock(pthread_mutex_lock(statedump_lock, t), t)
          /\ Return(SIDE_ERROR_OK)
  /\ UNCHANGED <<initialized, finalized, coreFrame, statedump_list, side_key_next,
                 key_out>>

\* int side_tracer_request_key(uint64_t *key); side_key_lock is held for the
\* duration of the call.
side_tracer_request_key(t) ==
  /\ ~crashed
  /\ op' = "side_tracer_request_key"
  /\ side_key_next < SIDE_KEY_RESERVED_RANGE_END + MaxKeys
  /\ IF side_key_next = 0
     THEN Return(SIDE_ERROR_NOMEM) /\ UNCHANGED <<side_key_next, key_out>>
     ELSE /\ key_out' = side_key_next
          /\ side_key_next' = (side_key_next + 1) % Pow2(KeyBits)
          /\ Return(SIDE_ERROR_OK)
  /\ UNCHANGED <<initialized, finalized, coreFrame, statedump_list, sd_handle,
                 statedump_lock>>

(***************************************************************************)
(* Specification of the library life cycle: every public entry point, one  *)
(* application thread, every call runs to completion.                      *)
(***************************************************************************)
LifeTriple == Triple(FnA, NULL, SIDE_KEY_MATCH_ALL)
\* Bounds on the explored states: side_statedump_lock can be locked twice
\* more, every queue can take one more notification.
HoldBelow(n) == statedump_lock.depth + 2 <= n
QueuesBelow(n) == \A h \in Range(statedump_list) : Len(sd_handle[h].queue) < n
LifeKeys == {SIDE_KEY_MATCH_ALL, 9}

NextLife ==
  \/ side_init
  \/ \E t \in Threads :
       \/ side_call(t, "e0")
       \/ side_call_variadic(t, "ev")
       \/ side_statedump_call(t, "e0", 9)
       \/ side_statedump_call_variadic(t, "ev", 9)
  \/ \E t \in Threads, alloc_ok \in BOOLEAN :
       \/ side_tracer_callback_register(t, "e0", FALSE, LifeTriple.call, LifeTriple.priv,
                                        LifeTriple.key, alloc_ok)
       \/ side_tracer_callback_unregister(t, "e0", FALSE, LifeTriple.call, LifeTriple.priv,
                                          LifeTriple.key, alloc_ok)
  \/ \E t \in Threads, alloc_ok \in BOOLEAN :
       \/ side_tracer_callback_register(t, "ev", TRUE, LifeTriple.call, LifeTriple.priv,
                                        LifeTriple.key, alloc_ok)
       \/ side_tracer_callback_unregister(t, "ev", TRUE, LifeTriple.call, LifeTriple.priv,
                                          LifeTriple.key, alloc_ok)
  \/ \E t \in Threads, alloc_ok \in BOOLEAN :
       \/ side_events_register(t, 1, alloc_ok)
       \/ side_tracer_event_notification_register(t, 1, alloc_ok)
  \/ \E t \in Threads :
       \/ side_events_unregister(t, 1)
       \/ side_tracer_event_notification_unregister(t, 1)
  \/ \E t \in Threads, alloc \in AllocOutcomes :
       side_statedump_request_notification_register(t, 1, SIDE_STATEDUMP_MODE_POLLING,
                                                    alloc)
  \/ \E t \in Threads :
       \/ side_statedump_request_notification_unregister(t, 1)
       \/ side_statedump_poll_pending_requests(t, 1)
       \/ side_statedump_run_pending_requests(t, 1)
  \/ \E t \in Threads, key \in LifeKeys, alloc_ok \in BOOLEAN :
       /\ HoldBelow(MaxHold) /\ QueuesBelow(MaxQueue)
       /\ side_tracer_statedump_request(t, key, alloc_ok)
  \/ \E t \in Threads, key \in LifeKeys :
       /\ HoldBelow(MaxHold)
       /\ side_tracer_statedump_request_cancel(t, key)
  \/ \E t \in Threads : side_tracer_request_key(t)
  \/ \E t \in Threads : side_exit(t)

SpecLife == Init /\ [][NextLife]_vars

\* What the library keeps between calls.
LibraryState ==
  <<initialized, finalized, es, mem, event_lock, events_list, tracer_list,
    statedump_list, sd_handle, statedump_lock, side_key_next>>

\* C10 (after exit): once side_exit has run, every public entry point either
\* returns Exiting or is a no-op: it changes no library state, invokes no
\* tracer callback, no tracer notification callback and no state dump
\* callback, and writes nothing through its arguments.
C10_AfterExit ==
  [][(finalized /\ op' \notin {"side_init", "side_exit"}) =>
       \/ ret' = SIDE_ERROR_EXITING
       \/ /\ LibraryState' = LibraryState
          /\ invoked' = <<>>
          /\ tracer_view' = tracer_view
          /\ key_out' = key_out
    ]_vars

\* What side_init and side_exit may touch: the two flags, the registry lists
\* and the state of every event.
LifecycleState ==
  <<initialized, finalized, events_list, tracer_list, statedump_list, es, mem>>

\* C11 (idempotent lifecycle): side_init leaves the library initialized and
\* side_exit leaves it finalized; neither flag is ever cleared again, so every
\* side_init after the first runs on an initialized library and every
\* side_exit after the first on a finalized one, and such a call leaves
\* initialized, finalized, the registry lists and every event state
\* unchanged; side_init after side_exit leaves the library finalized.
C11_Idempotent ==
  [][/\ op' = "side_init" => initialized'
     /\ op' = "side_exit" => finalized'
     /\ initialized => initialized'
     /\ finalized => finalized'
     /\ (op' = "side_init" /\ initialized) => LifecycleState' = LifecycleState
     /\ (op' = "side_exit" /\ finalized) => LifecycleState' = LifecycleState
    ]_vars

\* C11 witness: side_init has just run on a library that side_exit finalized
\* after tracers had subscribed.
C11_Witness ==
  /\ op = "side_init"
  /\ finalized
  /\ initialized
  /\ tracer_list # <<>>

(***************************************************************************)
(* Specification of the registry: event batches and tracer notification    *)
(* handles come and go, callbacks are registered on the batches' events,   *)
(* the library is finalized. Every call holds side_event_lock from its     *)
(* first to its last access to the lists.                                  *)
(***************************************************************************)
NextRegistry ==
  \/ \E t \in Threads, b \in BatchIds, alloc_ok \in BOOLEAN :
       side_events_register(t, b, alloc_ok)
  \/ \E t \in Threads, b \in BatchIds \cup {NULL} : side_events_unregister(t, b)
  \/ \E t \in Threads, h \in TracerIds, alloc_ok \in BOOLEAN :
       side_tracer_event_notification_register(t, h, alloc_ok)
  \/ \E t \in Threads, h \in TracerIds : side_tracer_event_notification_unregister(t, h)
  \/ \E t \in Threads, e \in Events :
       \E x \in {LifeTriple, Triple(FnB, NULL, 9)} :
         side_tracer_callback_register(t, e, SIDE_EVENT_FLAG_VARIADIC(e),
                                       x.call, x.priv, x.key, TRUE)
  \/ shared_bit_toggle("e0", SIDE_EVENT_ENABLED_SHARED_PTRACE_MASK)
  \/ \E t \in Threads : side_exit(t)

SpecRegistry == Init /\ [][NextRegistry]_vars

\* C13 (registry consistency): whenever the registry mutex is free, every
\* subscribed tracer has received Insert and no later Remove for exactly the
\* batches linked in events_list; no tracer ever received two Inserts for a
\* batch without a Remove in between, nor a Remove without a prior Insert.
C13_RegistryConsistent ==
  /\ event_lock = MutexFree =>
       \A h \in Range(tracer_list) : tracer_view[h].seen = Range(events_list)
  /\ \A h \in TracerIds : ~tracer_view[h].err

\* C13 witness: two tracers are subscribed and, of two registered batches,
\* the first has just been unregistered.
C13_Witness ==
  /\ Len(tracer_list) = 2
  /\ op = "side_events_unregister"
  /\ events_list = <<2>>
  /\ \A h \in TracerIds : tracer_view[h].seen = {2}

(***************************************************************************)
(* Specification of polled state dumps: an application thread and a tracer *)
(* thread call the state dump entry points on polling-mode handles; every  *)
(* call runs to completion before the next one starts.                     *)
(***************************************************************************)
PollThreads == {"app", "tracer"}
PollKeys == {SIDE_KEY_MATCH_ALL, SIDE_KEY_RESERVED_RANGE_END, 9}

NextPoll ==
  \/ \E t \in PollThreads, h \in SdHandles, alloc \in AllocOutcomes :
       side_statedump_request_notification_register(t, h, SIDE_STATEDUMP_MODE_POLLING,
                                                    alloc)
  \/ \E t \in PollThreads, h \in SdHandles :
       \/ side_statedump_request_notification_unregister(t, h)
       \/ side_statedump_poll_pending_requests(t, h)
       \/ side_statedump_run_pending_requests(t, h)
  \/ \E t \in PollThreads, key \in PollKeys :
       /\ HoldBelow(MaxPollHold) /\ QueuesBelow(MaxPollQueue)
       /\ side_tracer_statedump_request(t, key, TRUE)
  \/ \E t \in PollThreads, key \in PollKeys :
       /\ HoldBelow(MaxPollHold)
       /\ side_tracer_statedump_request_cancel(t, key)

SpecPoll == Init /\ [][NextPoll]_vars

\* The invocation of the state dump callback of handle h with a key.
StatedumpCall(h, key) == [call |-> StatedumpCb(h), priv |-> NULL, key |-> key]

RECURSIVE OtherKeys(_, _)
OtherKeys(q, key) ==
  IF q = <<>> THEN <<>>
  ELSE IF Head(q) = key THEN OtherKeys(Tail(q), key)
  ELSE <<Head(q)>> \o OtherKeys(Tail(q), key)

\* C16 (request then cancel): cancel(K) removes from the queue of every
\* handle exactly the notifications whose key is K and leaves the others,
\* the initial MATCH_ALL notification included, queued in their order; a
\* handle's callback is invoked only with keys queued on the handle at the
\* drain, so a request of K cancelled before any drain invokes no callback
\* with K.
C16_RequestCancel ==
  [][/\ op' = "side_tracer_statedump_request_cancel" =>
          \A t \in PollThreads, key \in PollKeys \ {SIDE_KEY_MATCH_ALL} :
            side_tracer_statedump_request_cancel(t, key) =>
              /\ ret' = SIDE_ERROR_OK
              /\ invoked' = <<>>
              /\ statedump_list' = statedump_list
              /\ \A h \in SdHandles :
                   sd_handle'[h].queue = OtherKeys(sd_handle[h].queue, key)
     /\ \A h \in SdHandles, key \in PollKeys :
          StatedumpCall(h, key) \in Range(invoked') => key \in Range(sd_handle[h].queue)
    ]_vars

\* C16 witness: after requests of 8 and 9, a cancel of 8 has left handle 1
\* with its initial notification and the request of 9.
C16_Witness ==
  /\ op = "side_tracer_statedump_request_cancel"
  /\ ret = SIDE_ERROR_OK
  /\ statedump_lock.depth = 6
  /\ sd_handle[1].queue = <<SIDE_KEY_MATCH_ALL, 9>>
  /\ sd_handle[2].allocated
  /\ sd_handle[2].queue = <<9>>

(***************************************************************************)
(* side_tracer_request_key, step by step, called by several tracer threads *)
(***************************************************************************)
keyFrame == <<initialized, finalized, es, mem, event_lock, events_list, tracer_list,
              tracer_view, crashed, registered, rcuVars, statedump_list, sd_handle,
              statedump_lock, key_out, agentVars>>

\* A side_key_lock that excludes nobody.
side_key_lock_available_always(lock) == TRUE
\* pthread_mutex_lock(&side_key_lock) returns: nobody holds the mutex.
side_key_lock_available(lock) == lock = NoThread

\* pthread_mutex_lock(&side_key_lock);
side_tracer_request_key_lock(t) ==
  /\ key_frame[t].pc = "idle"
  /\ side_key_lock_available(side_key_lock)
  /\ side_key_lock' = t
  /\ key_frame' = [key_frame EXCEPT ![t] = [pc |-> "check", key |-> 0,
                                            ret |-> SIDE_ERROR_OK]]
  /\ UNCHANGED <<keyFrame, op, ret, invoked, side_key_next, key_store, keys_issued>>

\* if (side_key_next == 0) { ret = SIDE_ERROR_NOMEM; goto end; }
side_tracer_request_key_check(t) ==
  /\ key_frame[t].pc = "check"
  /\ key_frame' = [key_frame EXCEPT ![t] =
                     IF side_key_next = 0
                     THEN [@ EXCEPT !.pc = "end", !.ret = SIDE_ERROR_NOMEM]
                     ELSE [@ EXCEPT !.pc = "store"]]
  /\ UNCHANGED <<keyFrame, op, ret, invoked, side_key_next, side_key_lock, key_store,
                 keys_issued>>

\* *key = side_key_next++: the store of the value read.
side_tracer_request_key_store(t) ==
  /\ key_frame[t].pc = "store"
  /\ key_frame' = [key_frame EXCEPT ![t].pc = "increment", ![t].key = side_key_next]
  /\ key_store' = [key_store EXCEPT ![t] = side_key_next]
  /\ keys_issued' = Append(keys_issued, side_key_next)
  /\ UNCHANGED <<keyFrame, op, ret, invoked, side_key_next, side_key_lock>>

\* *key = side_key_next++: the increment, on KeyBits bits.
side_tracer_request_key_increment(t) ==
  /\ key_frame[t].pc = "increment"
  /\ side_key_next' = (key_frame[t].key + 1) % Pow2(KeyBits)
  /\ key_frame' = [key_frame EXCEPT ![t].pc = "end"]
  /\ UNCHANGED <<keyFrame, op, ret, invoked, side_key_lock, key_store, keys_issued>>

\* end: pthread_mutex_unlock(&side_key_lock); return ret;
side_tracer_request_key_end(t) ==
  /\ key_frame[t].pc = "end"
  /\ side_key_lock' = NoThread
  /\ key_frame' = [key_frame EXCEPT ![t].pc = "idle"]
  /\ op' = "side_tracer_request_key"
  /\ Return(key_frame[t].ret)
  /\ UNCHANGED <<keyFrame, side_key_next, key_store, keys_issued>>

NextKey ==
  \E t \in KeyThreads :
    \/ side_tracer_request_key_lock(t)
    \/ side_tracer_request_key_check(t)
    \/ side_tracer_request_key_store(t)
    \/ side_tracer_request_key_increment(t)
    \/ side_tracer_request_key_end(t)

SpecKey == Init /\ [][NextKey]_vars

\* C12 (key allocation): the keys written by successful request_key calls of
\* all threads are, in the order they are handed out, 8, 9, 10, ...: strictly
\* increasing, pairwise distinct, never in the reserved range [0, 8); once
\* the counter has wrapped to 0 it stays 0, and every call that finds it 0
\* returns NoMemory without writing the caller's key.
C12_KeyAllocation ==
  /\ [](\A i \in 1..Len(keys_issued) :
          keys_issued[i] = SIDE_KEY_RESERVED_RANGE_END + i - 1)
  /\ [][/\ side_key_next = 0 => side_key_next' = 0
        /\ \A t \in KeyThreads :
             /\ (side_key_next = 0 /\ side_tracer_request_key_check(t)) =>
                  key_frame'[t].ret = SIDE_ERROR_NOMEM /\ key_frame'[t].pc = "end"
             /\ (key_frame[t].ret = SIDE_ERROR_NOMEM /\ key_frame[t].pc = "end") =>
                  /\ key_store' = key_store
                  /\ keys_issued' = keys_issued
                  /\ side_tracer_request_key_end(t) => ret' = SIDE_ERROR_NOMEM
        /\ \A t \in KeyThreads :
             (side_tracer_request_key_end(t) /\ ret' = SIDE_ERROR_OK) =>
               /\ key_store[t] >= SIDE_KEY_RESERVED_RANGE_END
               /\ \A u \in KeyThreads \ {t} :
                    key_frame[u].pc \in {"idle", "check"} => key_store[u] # key_store[t]
       ]_vars

\* C12 witness: the counter has wrapped, both threads hold keys handed out
\* before, and a call has just returned NoMemory.
C12_Witness ==
  /\ side_key_next = 0
  /\ op = "side_tracer_request_key"
  /\ ret = SIDE_ERROR_NOMEM
  /\ key_store["k1"] >= SIDE_KEY_RESERVED_RANGE_END
  /\ key_store["k2"] >= SIDE_KEY_RESERVED_RANGE_END
  /\ Len(keys_issued) = Pow2(KeyBits) - SIDE_KEY_RESERVED_RANGE_END

(***************************************************************************)
(* State dumps with the agent thread, step by step. Allocations succeed.   *)
(* A step that takes side_statedump_lock runs to the point where it        *)
(* releases the mutex or sleeps on a condition variable.                   *)
(***************************************************************************)
sdStepFrame == <<finalized, es, mem, event_lock, events_list, tracer_list, tracer_view,
                 crashed, registered, rcuVars, side_key_next, key_out, keyVars>>

\* The first node of a list, or NULL for the list head.
side_list_first(list) == IF list = <<>> THEN NULL ELSE Head(list)
\* The node after h in list (h is linked), or NULL for the list head.
side_list_after(list, h) ==
  LET i == CHOOSE k \in 1..Len(list) : list[k] = h
  IN IF i = Len(list) THEN NULL ELSE list[i + 1]
\* rcu_dereference(handle->node.next): side_list_remove_node_rcu leaves the
\* next pointer of the removed node as it was.
side_list_next_rcu(h) ==
  IF h \in Range(statedump_list) THEN side_list_after(statedump_list, h)
  ELSE sd_handle[h].next

\* static void statedump_agent_thread_get(void), with statedump_agent_thread_init
\* and pthread_create; r = [at, frames].
statedump_agent_thread_get(at, frames) ==
  IF at.ref # 0 THEN [at |-> [at EXCEPT !.ref = @ + 1], frames |-> frames]
  ELSE [at |-> [ref |-> 1, state |-> AGENT_THREAD_STATE_BLOCKED],
        frames |-> [frames EXCEPT ![AgentThread] =
                      [NoSdFrame EXCEPT !.pc = "lock", !.fn = "statedump_agent_func"]]]

\* side_statedump_request_notification_register up to the unlock of
\* side_statedump_lock and, in agent mode, of side_agent_thread_lock: a
\* polling-mode handle is returned at once, an agent-mode call goes on to wait.
statedump_register_enter(t, h, mode) ==
  /\ ~crashed
  /\ sd_frame[t].pc = "idle"
  /\ ~sd_handle[h].allocated
  /\ IF finalized
     THEN /\ op' = "side_statedump_request_notification_register"
          /\ Return(NULL)
          /\ UNCHANGED <<initialized, statedump_list, sd_handle, agent_thread,
                         side_agent_thread_lock, sd_frame>>
     ELSE /\ initialized' = TRUE
          /\ mode = SIDE_STATEDUMP_MODE_AGENT_THREAD => side_agent_thread_lock = NoThread
          /\ MutexCanLock(statedump_lock, t)
          /\ LET got == IF mode = SIDE_STATEDUMP_MODE_AGENT_THREAD
                        THEN statedump_agent_thread_get(agent_thread, sd_frame)
                        ELSE [at |-> agent_thread, frames |-> sd_frame]
                 linked == [sd_handle EXCEPT ![h] =
                              [NoHandle EXCEPT !.allocated = TRUE, !.mode = mode]]
                 r == queue_statedump_pending(
                        [q |-> linked, crashed |-> FALSE, state |-> got.at.state,
                         frames |-> got.frames], h, SIDE_KEY_MATCH_ALL, TRUE)
             IN /\ sd_handle' = r.q
                /\ agent_thread' = [got.at EXCEPT !.state = r.state]
                /\ statedump_list' = Append(statedump_list, h)
                /\ IF mode = SIDE_STATEDUMP_MODE_AGENT_THREAD
                   THEN /\ UNCHANGED side_agent_thread_lock
                        /\ sd_frame' =
                             [r.frames EXCEPT ![t] =
                                [NoSdFrame EXCEPT
                                   !.pc = "registered",
                                   !.fn = "side_statedump_request_notification_register",
                                   !.h = h]]
                        /\ UNCHANGED <<op, ret, invoked>>
                   ELSE /\ sd_frame' = r.frames
                        /\ UNCHANGED side_agent_thread_lock
                        /\ op' = "side_statedump_request_notification_register"
                        /\ Return(h)
  /\ UNCHANGED <<sdStepFrame, statedump_lock, delivered>>

\* side_statedump_request_notification_register in agent mode, after the
\* unlocks: lock side_statedump_lock,
\* while (!side_list_empty(&handle->notification_queue)) pthread_cond_wait(waiter_cond);
\* unlock, return handle. Also the wake-up from pthread_cond_wait.
statedump_register_wait(t) ==
  /\ ~crashed
  /\ sd_frame[t].fn = "side_statedump_request_notification_register"
  /\ sd_frame[t].pc \in {"registered", "cond_wake"}
  /\ MutexCanLock(statedump_lock, t)
  /\ IF sd_handle[sd_frame[t].h].queue = <<>>
     THEN /\ sd_frame' = [sd_frame EXCEPT ![t] = NoSdFrame]
          /\ op' = "side_statedump_request_notification_register"
          /\ Return(sd_frame[t].h)
     ELSE /\ sd_frame' = [sd_frame EXCEPT ![t].pc = "cond_wait"]
          /\ UNCHANGED <<op, ret, invoked>>
  /\ UNCHANGED <<sdStepFrame, initialized, statedump_list, sd_handle, statedump_lock,
                 agent_thread, side_agent_thread_lock, delivered>>

\* int side_statedump_run_pending_requests(handle) up to the call of
\* _side_statedump_run_pending_requests.
statedump_run_pending_enter(t, h) ==
  /\ ~crashed
  /\ sd_frame[t].pc = "idle"
  /\ sd_handle[h].allocated
  /\ IF sd_handle[h].mode # SIDE_STATEDUMP_MODE_POLLING
     THEN /\ op' = "side_statedump_run_pending_requests"
          /\ Return(SIDE_ERROR_INVAL)
          /\ UNCHANGED sd_frame
     ELSE /\ sd_frame' = [sd_frame EXCEPT ![t] =
                            [NoSdFrame EXCEPT
                               !.pc = "splice",
                               !.fn = "side_statedump_run_pending_requests",
                               !.h = h]]
          /\ UNCHANGED <<op, ret, invoked>>
  /\ UNCHANGED <<sdStepFrame, initialized, statedump_list, sd_handle, statedump_lock,
                 agent_thread, side_agent_thread_lock, delivered>>

\* _side_statedump_run_pending_requests: lock, side_list_splice of the
\* handle's queue to tmp_head, side_list_head_init, unlock.
statedump_run_pending_splice(t) ==
  /\ ~crashed
  /\ sd_frame[t].pc = "splice"
  /\ MutexCanLock(statedump_lock, t)
  /\ sd_frame' = [sd_frame EXCEPT ![t].pc = "run",
                                  ![t].tmp_head = sd_handle[sd_frame[t].h].queue]
  /\ sd_handle' = [sd_handle EXCEPT ![sd_frame[t].h].queue = <<>>]
  /\ UNCHANGED <<sdStepFrame, initialized, op, ret, invoked, statedump_list,
                 statedump_lock, agent_thread, side_agent_thread_lock, delivered>>

\* side_list_for_each_entry(notif, &tmp_head, node) side_statedump_run(handle, notif):
\* one notification; the handle's callback is invoked and returns.
statedump_run_pending_notification(t) ==
  /\ ~crashed
  /\ sd_frame[t].pc = "run"
  /\ sd_frame[t].tmp_head # <<>>
  /\ LET h == sd_frame[t].h
         key == Head(sd_frame[t].tmp_head)
     IN /\ invoked' = side_statedump_run(h, key)
        /\ delivered' = Append(delivered, [h |-> h, key |-> key, by |-> t])
  /\ sd_frame' = [sd_frame EXCEPT ![t].tmp_head = Tail(@)]
  /\ initialized' = (initialized \/ ~finalized)
  /\ UNCHANGED <<sdStepFrame, op, ret, statedump_list, sd_handle, statedump_lock,
                 agent_thread, side_agent_thread_lock>>

\* _side_statedump_run_pending_requests after the loop: free the
\* notifications; for an agent-mode handle lock, broadcast waiter_cond,
\* unlock. Then the return to side_statedump_run_pending_requests, which
\* returns Ok, or to the agent thread's loop over the handles.
statedump_run_pending_finish(t) ==
  /\ ~crashed
  /\ sd_frame[t].pc = "run"
  /\ sd_frame[t].tmp_head = <<>>
  /\ LET agent_mode ==
           sd_handle[sd_frame[t].h].mode = SIDE_STATEDUMP_MODE_AGENT_THREAD
         woken == IF agent_mode THEN pthread_cond_broadcast(sd_frame, SdCallers)
                  ELSE sd_frame
     IN /\ agent_mode => MutexCanLock(statedump_lock, t)
        /\ IF t = AgentThread
           THEN /\ sd_frame' = [woken EXCEPT ![t].pc = "next"]
                /\ UNCHANGED <<op, ret, invoked>>
           ELSE /\ sd_frame' = [woken EXCEPT ![t] = NoSdFrame]
                /\ op' = "side_statedump_run_pending_requests"
                /\ Return(SIDE_ERROR_OK)
  /\ UNCHANGED <<sdStepFrame, initialized, statedump_list, sd_handle, statedump_lock,
                 agent_thread, side_agent_thread_lock, delivered>>

\* statedump_agent_func: lock, load state, pthread_cond_wait(worker_cond)
\* while it is BLOCKED, unlock. Also the wake-up from pthread_cond_wait.
statedump_agent_wait ==
  /\ ~crashed
  /\ sd_frame[AgentThread].fn = "statedump_agent_func"
  /\ sd_frame[AgentThread].pc \in {"lock", "cond_wake"}
  /\ MutexCanLock(statedump_lock, AgentThread)
  /\ sd_frame' = [sd_frame EXCEPT ![AgentThread] =
                    IF agent_thread.state = AGENT_THREAD_STATE_BLOCKED
                    THEN [@ EXCEPT !.pc = "cond_wait"]
                    ELSE [@ EXCEPT !.pc = "dispatch", !.state = agent_thread.state]]
  /\ UNCHANGED <<sdStepFrame, initialized, op, ret, invoked, statedump_list, sd_handle,
                 statedump_lock, agent_thread, side_agent_thread_lock, delivered>>

\* statedump_agent_func after the unlock: EXIT ends the thread, PAUSE is
\* acknowledged, otherwise HANDLE_REQUEST is cleared and the read section
\* over side_statedump_list begins.
statedump_agent_dispatch ==
  /\ ~crashed
  /\ sd_frame[AgentThread].pc = "dispatch"
  /\ IF AGENT_THREAD_STATE_EXIT \in sd_frame[AgentThread].state
     THEN /\ sd_frame' = [sd_frame EXCEPT ![AgentThread].pc = "exited"]
          /\ UNCHANGED agent_thread
     ELSE IF AGENT_THREAD_STATE_PAUSE \in sd_frame[AgentThread].state
     THEN /\ sd_frame' = [sd_frame EXCEPT ![AgentThread].pc = "paused"]
          /\ agent_thread' = [agent_thread EXCEPT
                                !.state = @ \cup {AGENT_THREAD_STATE_PAUSE_ACK}]
     ELSE /\ sd_frame' = [sd_frame EXCEPT ![AgentThread].pc = "read_begin"]
          /\ agent_thread' = [agent_thread EXCEPT
                                !.state = @ \ {AGENT_THREAD_STATE_HANDLE_REQUEST}]
  /\ UNCHANGED <<sdStepFrame, initialized, op, ret, invoked, statedump_list, sd_handle,
                 statedump_lock, side_agent_thread_lock, delivered>>

\* side_list_for_each_entry_rcu(handle, &side_statedump_list, node)
\*         _side_statedump_run_pending_requests(handle);
\* the load of the first or of the next node pointer: a handle, of whatever
\* mode, or the end of the list, where the read section ends (no grace
\* period waits for the thread any more) and the thread's loop starts anew.
statedump_agent_iterate ==
  /\ ~crashed
  /\ sd_frame[AgentThread].pc \in {"read_begin", "next"}
  /\ LET f == sd_frame[AgentThread]
         node == IF f.pc = "read_begin" THEN side_list_first(statedump_list)
                 ELSE side_list_next_rcu(f.h)
     IN sd_frame' =
          IF node # NULL
          THEN [sd_frame EXCEPT ![AgentThread] = [f EXCEPT !.pc = "splice", !.h = node]]
          ELSE [t \in SdThreads |->
                  IF t = AgentThread
                  THEN [f EXCEPT !.pc = "lock", !.h = NULL, !.state = {}]
                  ELSE [sd_frame[t] EXCEPT !.gp_wait = @ \ {AgentThread}]]
  /\ UNCHANGED <<sdStepFrame, initialized, op, ret, invoked, statedump_list, sd_handle,
                 statedump_lock, agent_thread, side_agent_thread_lock, delivered>>

\* The steps of the agent thread.
AgentSteps ==
  \/ statedump_agent_wait
  \/ statedump_agent_dispatch
  \/ statedump_agent_iterate
  \/ statedump_run_pending_splice(AgentThread)
  \/ statedump_run_pending_notification(AgentThread)
  \/ statedump_run_pending_finish(AgentThread)

\* The steps of a drain by a thread that called side_statedump_run_pending_requests.
DrainSteps(t) ==
  \/ statedump_run_pending_splice(t)
  \/ statedump_run_pending_notification(t)
  \/ statedump_run_pending_finish(t)

SdModes == {SIDE_STATEDUMP_MODE_POLLING, SIDE_STATEDUMP_MODE_AGENT_THREAD}
\* The tracer requests a dump for the key it was given (9 before it asked).
TracerKeyOf(k) == IF k = 0 THEN 9 ELSE k
TracerKey == TracerKeyOf(key_out)

NextAgent ==
  \/ \E h \in SdHandles, mode \in SdModes : statedump_register_enter("app", h, mode)
  \/ statedump_register_wait("app")
  \/ \E t \in SdCallers, h \in SdHandles : statedump_run_pending_enter(t, h)
  \/ \E t \in SdCallers : DrainSteps(t)
  \/ AgentSteps
  \/ \E h \in SdHandles :
       /\ sd_frame["app"].pc = "idle"
       /\ side_statedump_poll_pending_requests("app", h)
  \/ /\ sd_frame["tracer"].pc = "idle"
     /\ side_tracer_request_key("tracer")
  \/ \E key \in {SIDE_KEY_MATCH_ALL, TracerKey} :
       /\ sd_frame["tracer"].pc = "idle"
       /\ HoldBelow(MaxHold) /\ QueuesBelow(MaxQueue)
       /\ side_tracer_statedump_request("tracer", key, TRUE)
  \/ \E key \in {SIDE_KEY_MATCH_ALL, TracerKey} :
       /\ sd_frame["tracer"].pc = "idle"
       /\ HoldBelow(MaxHold)
       /\ side_tracer_statedump_request_cancel("tracer", key)

SpecAgent == Init /\ [][NextAgent]_vars

\* The number of times handle h's callback was invoked, and returned, with key.
Delivered(h, key) ==
  Cardinality({i \in 1..Len(delivered) : delivered[i].h = h /\ delivered[i].key = key})

\* C15: at the moment side_statedump_request_notification_register in agent
\* mode returns the handle, the handle's callback has been invoked and has
\* returned exactly once with key MATCH_ALL, whatever the interleaving of the
\* registering thread and the agent thread.
C15_AgentInitial ==
  [][\A h \in SdHandles :
       (/\ sd_frame["app"].fn = "side_statedump_request_notification_register"
        /\ sd_frame["app"].h = h
        /\ sd_frame'["app"].pc = "idle")
       => Delivered(h, SIDE_KEY_MATCH_ALL)' = 1
    ]_vars

\* C20: the callback of a polling-mode handle is invoked, and its queue is
\* emptied, only by a thread executing side_statedump_run_pending_requests on
\* that handle, never by the agent thread, agent-mode handles registered or
\* not; side_statedump_run_pending_requests on an agent-mode handle returns
\* Invalid without draining, and side_statedump_poll_pending_requests on it
\* returns false, neither touching a queue.
C20_PollingDriven ==
  [][/\ \A h \in SdHandles :
          (/\ sd_handle[h].allocated
           /\ sd_handle[h].mode = SIDE_STATEDUMP_MODE_POLLING
           /\ sd_handle[h].queue # <<>>
           /\ sd_handle'[h].queue = <<>>)
          => \E t \in SdCallers :
               /\ sd_frame[t].fn = "side_statedump_run_pending_requests"
               /\ sd_frame[t].h = h
               /\ sd_frame'[t].tmp_head = sd_handle[h].queue
     /\ Len(delivered') > Len(delivered) =>
          LET d == delivered'[Len(delivered')]
          IN sd_handle[d.h].mode = SIDE_STATEDUMP_MODE_POLLING =>
               /\ d.by \in SdCallers
               /\ sd_frame[d.by].fn = "side_statedump_run_pending_requests"
               /\ sd_frame[d.by].h = d.h
     /\ \A t \in SdCallers :
          sd_frame'[t].fn = "side_statedump_run_pending_requests" =>
            sd_handle[sd_frame'[t].h].mode = SIDE_STATEDUMP_MODE_POLLING
     /\ (op' = "side_statedump_run_pending_requests" /\ ret' = SIDE_ERROR_INVAL
         /\ ret # SIDE_ERROR_INVAL) =>
          /\ sd_handle' = sd_handle
          /\ delivered' = delivered
          /\ \E h \in SdHandles :
               /\ sd_handle[h].allocated
               /\ sd_handle[h].mode = SIDE_STATEDUMP_MODE_AGENT_THREAD
     /\ (op' = "side_statedump_poll_pending_requests" /\ sd_frame' = sd_frame) =>
          /\ sd_handle' = sd_handle
          /\ delivered' = delivered
          /\ ret' = 1 =>
               \E h \in SdHandles :
                 /\ sd_handle[h].allocated
                 /\ sd_handle[h].mode = SIDE_STATEDUMP_MODE_POLLING
                 /\ sd_handle[h].queue # <<>>
    ]_vars

\* Scheduling: a thread that can take a step is not left waiting for ever.
\* A thread blocked on a mutex or sleeping on a condition variable has no
\* step to take.
SpecAgentFair ==
  /\ SpecAgent
  /\ WF_vars(AgentSteps)
  /\ WF_vars(statedump_register_wait("app"))
  /\ \A t \in SdCallers : WF_vars(DrainSteps(t))

\* The keys a tracer requests a dump for.
SdKeys == {TracerKeyOf(k) : k \in {0} \cup (SIDE_KEY_RESERVED_RANGE_END..(SIDE_KEY_RESERVED_RANGE_END + MaxKeys))}

\* The notifications of handle h with key that are queued or spliced to a
\* drain's tmp_head and not run yet.
Pending(h, key) ==
  LET spliced(t) == IF sd_frame[t].h = h THEN Occurrences(sd_frame[t].tmp_head, key)
                    ELSE 0
  IN Occurrences(sd_handle[h].queue, key)
       + spliced("app") + spliced("tracer") + spliced(AgentThread)

\* A drain of handle h has begun while a notification with key is queued on it.
DrainBegun(h, key) ==
  /\ key \in Range(sd_handle[h].queue)
  /\ \E t \in SdThreads : sd_frame[t].pc = "splice" /\ sd_frame[t].h = h

\* C17: every notification queued by side_tracer_statedump_request(K) on a
\* handle and not cancelled is run exactly once on that handle when the handle
\* is drained: a step runs a notification at most once and takes it from the
\* pending ones, only a request adds one, only a cancel drops one unrun
\* (never twice), and a drain begun on a handle with K queued comes to the
\* point where no notification of K is left pending on it (never lost), be
\* the draining thread the requesting thread, another one, or two at once.
C17_RequestDrain ==
  /\ [][\A h \in SdHandles, key \in SdKeys :
          LET total == Delivered(h, key) + Pending(h, key)
          IN IF statedump_lock' # statedump_lock /\ op' = "side_tracer_statedump_request"
             THEN /\ total' \in {total, total + 1}
                  /\ Delivered(h, key)' = Delivered(h, key)
             ELSE IF statedump_lock' # statedump_lock
             THEN /\ total' <= total
                  /\ Delivered(h, key)' = Delivered(h, key)
             ELSE /\ total' = total
                  /\ Delivered(h, key)' \in {Delivered(h, key), Delivered(h, key) + 1}
       ]_vars
  /\ \A h \in SdHandles, key \in SdKeys :
       DrainBegun(h, key) ~> (Pending(h, key) = 0)

\* An agent-mode handle h whose initial dump was run holds the tracer's
\* request of the key the tracer was given.
AgentRequested(h) ==
  /\ sd_handle[h].allocated
  /\ sd_handle[h].mode = SIDE_STATEDUMP_MODE_AGENT_THREAD
  /\ Delivered(h, SIDE_KEY_MATCH_ALL) = 1
  /\ Pending(h, SIDE_KEY_MATCH_ALL) = 0
  /\ key_out >= SIDE_KEY_RESERVED_RANGE_END
  /\ op = "side_tracer_statedump_request"
  /\ ret = SIDE_ERROR_OK
  /\ key_out \in Range(sd_handle[h].queue)

\* C18: with an agent-mode handle H registered and its initial queue
\* drained, after a tracer thread obtains a key K >= 8 and calls
\* side_tracer_statedump_request(K), the agent thread eventually, under fair
\* scheduling, invokes H's callback with key K.
C18_AgentServes ==
  \A h \in SdHandles :
    AgentRequested(h) ~>
      (\E i \in 1..Len(delivered) :
         delivered[i] = [h |-> h, key |-> key_out, by |-> AgentThread])

(***************************************************************************)
(* Registration from inside a tracer callback                              *)
(*                                                                         *)
(* Thread "r1" emits on "e0"; the tracer callback it invokes calls         *)
(* side_tracer_callback_variadic_register / _unregister on "ev" before it  *)
(* returns. A tracer thread "w1" registers and unregisters the callbacks   *)
(* of "e0".                                                                *)
(***************************************************************************)
\* The triple the callback registers on "ev" and unregisters from it.
ReentryTriple == Triple(FnB, NULL, SIDE_KEY_MATCH_ALL)

\* The steps of the emitting thread outside the call its callback makes; the
\* callback returns once the call it made has returned.
EmitSteps(t, c) ==
  \/ \E key \in RcuEmitKeys : side_call_enter(t, "e0", FALSE, key)
  \/ side_call_dereference(t)
  \/ side_call_loop(t)
  \/ pc[c] = "idle" /\ side_call_callback_return(t)
  \/ side_call_leave(t)

\* The rest of a register or unregister call after the publication.
RegistrationSteps(t) ==
  \/ side_rcu_wait_grace_period_call(t)
  \/ side_rcu_wait_grace_period_return(t)
  \/ callback_register_leave(t)
  \/ callback_unregister_leave(t)

\* The call made by the callback the emit of thread t is invoking.
NestedSteps(t, c) ==
  \/ \E alloc_ok \in BOOLEAN :
       /\ pc[t] = "callback"
       /\ \/ callback_register_enter(c, "ev", TRUE, ReentryTriple.call,
                                     ReentryTriple.priv, ReentryTriple.key, alloc_ok)
          \/ callback_unregister_enter(c, "ev", TRUE, ReentryTriple.call,
                                       ReentryTriple.priv, ReentryTriple.key, alloc_ok)
  \/ RegistrationSteps(c)

\* The calls of the tracer thread.
TracerSteps(t) ==
  \/ \E x \in RcuTriples, alloc_ok \in BOOLEAN :
       \/ callback_register_enter(t, "e0", FALSE, x.call, x.priv, x.key, alloc_ok)
       \/ callback_unregister_enter(t, "e0", FALSE, x.call, x.priv, x.key, alloc_ok)
  \/ RegistrationSteps(t)

NextReentry ==
  \/ EmitSteps("r1", "c1")
  \/ NestedSteps("r1", "c1")
  \/ TracerSteps("w1")

SpecReentry == Init /\ [][NextReentry]_vars

\* Scheduling: a thread that can take a step is not left waiting for ever.
SpecReentryFair ==
  /\ SpecReentry
  /\ WF_vars(EmitSteps("r1", "c1"))
  /\ WF_vars(NestedSteps("r1", "c1") /\ pc["c1"] # "idle")
  /\ WF_vars(TracerSteps("w1") /\ pc["w1"] # "idle")

\* C19: a tracer callback that, while an emit on "e0" invokes it, calls
\* callback register or callback unregister for another event completes the
\* call and returns: the thread does not deadlock with itself on
\* side_event_lock or in side_rcu_wait_grace_period.
C19_Reentrancy ==
  \A c \in RcuNested : (pc[c] # "idle") ~> (pc[c] = "idle")

(***************************************************************************)
(* Vector rebuild                                                          *)
(***************************************************************************)
\* The bytes of one struct side_callback holding the triple x.
EntryBytes(x) ==
  Bytes(x.call, WordBytes) \o Bytes(x.priv, WordBytes) \o Bytes(x.key, WordBytes)

\* C21: after a successful register on an event whose vector holds entries
\* e1..en (n >= 1) the published vector is e1..en unchanged, then the new
\* (fn, priv, key) entry, then a zeroed sentinel; after a successful
\* unregister of entry ei from a vector of n >= 2 entries the published
\* vector is e1..e(i-1), e(i+1)..en, then a zeroed sentinel. (The order of
\* the calls within one emit is the index order of that vector.)
C21_RebuildPreserves ==
  [][\A e \in AllEvents :
       LET old == mem[es[e].callbacks].bytes
           new == mem'[es'[e].callbacks].bytes
           n == es[e].nr_callbacks
       IN /\ (/\ op' = "register" /\ ret' = SIDE_ERROR_OK
              /\ registered'[e] # registered[e] /\ n >= 1)
               => new = SubSeq(old, 1, n * SizeofCallback)
                          \o EntryBytes(registered'[e][Len(registered'[e])])
                          \o Zeros(SizeofCallback)
          /\ (/\ op' = "unregister" /\ ret' = SIDE_ERROR_OK
              /\ registered'[e] # registered[e] /\ n >= 2)
               => \E i \in 0..(n - 1) :
                    /\ registered'[e] =
                         RemoveFirst(registered[e],
                                     Triple(CbCall(old, i), CbPriv(old, i), CbKey(old, i)))
                    /\ new = SubSeq(old, 1, i * SizeofCallback)
                               \o SubSeq(old, (i + 1) * SizeofCallback + 1,
                                         n * SizeofCallback)
                               \o Zeros(SizeofCallback)
    ]_vars

\* C22: side_tracer_statedump_request and side_tracer_statedump_request_cancel
\* hold side_statedump_lock only for the duration of the call: when either
\* returns, Ok or Invalid, the calling thread's hold count on the mutex is
\* what it was before the call, so that any other thread can take the mutex
\* afterwards.
C22_LockPairing ==
  [][op' \in {"side_tracer_statedump_request", "side_tracer_statedump_request_cancel"}
       => /\ statedump_lock' = statedump_lock
          /\ statedump_lock = MutexFree =>
               \A t \in PollThreads : MutexCanLock(statedump_lock', t)
    ]_vars

\* C23: after side_events_unregister(handle) returns on a library that is not
\* finalized, the handle is no longer in side_events_list, every subscribed
\* tracer has received exactly one Remove for it, delivered after the handle
\* was unlinked, and every non-null event of the batch has nr_callbacks = 0,
\* callbacks pointing at side_empty_callback and a private enabled count of
\* 0, whatever callbacks were registered on it before.
C23_UnregisterDrains ==
  [][op' = "side_events_unregister" =>
       \A t \in Threads, b \in BatchIds :
         (~finalized /\ side_events_unregister(t, b)) =>
           /\ b \notin Range(events_list')
           /\ \A h \in Range(tracer_list) :
                /\ b \in tracer_view[h].seen
                /\ tracer_view'[h].seen = tracer_view[h].seen \ {b}
                /\ ~tracer_view'[h].err
                /\ ~tracer_view'[h].misordered
           /\ \A e \in Range(BatchEvents(b)) \ {NoEvent} :
                /\ es'[e].nr_callbacks = 0
                /\ es'[e].callbacks = side_empty_callback
                /\ EnabledPrivate(es'[e].enabled) = 0
    ]_vars

\* C23 witness: batch 2 has just been unregistered with two tracers
\* subscribed; its event "ev" is drained while "e0" of batch 1, still
\* linked, keeps its two callbacks.
C23_Witness ==
  /\ op = "side_events_unregister"
  /\ ~finalized
  /\ Len(tracer_list) = 2
  /\ events_list = <<1>>
  /\ \A h \in TracerIds : tracer_view[h].seen = {1}
  /\ es["ev"].nr_callbacks = 0
  /\ es["ev"].callbacks = side_empty_callback
  /\ es["e0"].nr_callbacks = 2
  /\ EnabledPrivate(es["e0"].enabled) = 1

(***************************************************************************)
(* Agent thread life cycle: unregistration and the fork hooks, step by     *)
(* step, with the agent thread.                                            *)
(***************************************************************************)
\* The agent thread is inside its statedump_rcu_gp read section.
AgentReading == sd_frame[AgentThread].pc \in {"splice", "run", "next"}

\* statedump_agent_thread_put that never ends the agent thread.
statedump_agent_thread_put_no_exit(at, frames) ==
  [at |-> [at EXCEPT !.ref = @ - 1], frames |-> frames, join |-> FALSE]

\* static bool statedump_agent_thread_put(void); r = [at, frames, join].
statedump_agent_thread_put(at, frames) ==
  IF at.ref # 1
  THEN [at |-> [at EXCEPT !.ref = @ - 1], frames |-> frames, join |-> FALSE]
  ELSE [at |-> [ref |-> 0, state |-> at.state \cup {AGENT_THREAD_STATE_EXIT}],
        frames |-> pthread_cond_broadcast(frames, {AgentThread}),
        join |-> TRUE]

\* side_statedump_request_notification_unregister up to the unlock of
\* side_statedump_lock, and for an agent-mode handle that does not end the
\* agent thread up to the unlock of side_agent_thread_lock.
statedump_unregister_enter(t, h) ==
  /\ ~crashed
  /\ sd_frame[t].pc = "idle"
  /\ h \in Range(statedump_list)
  /\ IF finalized
     THEN /\ op' = "side_statedump_request_notification_unregister"
          /\ ReturnVoid
          /\ UNCHANGED <<initialized, statedump_list, sd_handle, agent_thread,
                         side_agent_thread_lock, sd_frame>>
     ELSE /\ initialized' = TRUE
          /\ sd_handle[h].mode = SIDE_STATEDUMP_MODE_AGENT_THREAD =>
               side_agent_thread_lock = NoThread
          /\ MutexCanLock(statedump_lock, t)
          /\ LET put == IF sd_handle[h].mode = SIDE_STATEDUMP_MODE_AGENT_THREAD
                        THEN statedump_agent_thread_put(agent_thread, sd_frame)
                        ELSE [at |-> agent_thread, frames |-> sd_frame, join |-> FALSE]
             IN /\ sd_handle' =
                     [unqueue_statedump_pending(sd_handle, h, SIDE_KEY_MATCH_ALL)
                        EXCEPT ![h].next = side_list_after(statedump_list, h)]
                /\ statedump_list' = Without(statedump_list, h)
                /\ agent_thread' = put.at
                /\ side_agent_thread_lock' =
                     IF put.join THEN t ELSE side_agent_thread_lock
                /\ sd_frame' =
                     [put.frames EXCEPT ![t] =
                        [NoSdFrame EXCEPT
                           !.pc = IF put.join THEN "join" ELSE "wait_grace_period",
                           !.fn = "side_statedump_request_notification_unregister",
                           !.h = h]]
          /\ UNCHANGED <<op, ret, invoked>>
  /\ UNCHANGED <<sdStepFrame, statedump_lock, delivered>>

\* static void statedump_agent_thread_join(void): pthread_join returns once
\* the agent thread has ended, statedump_agent_thread_fini; then the unlock of
\* side_agent_thread_lock.
statedump_agent_thread_join(t) ==
  /\ ~crashed
  /\ sd_frame[t].pc = "join"
  /\ sd_frame[AgentThread].pc = "exited"
  /\ agent_thread' = [agent_thread EXCEPT !.state = AGENT_THREAD_STATE_BLOCKED]
  /\ side_agent_thread_lock' = NoThread
  /\ sd_frame' = [sd_frame EXCEPT ![AgentThread] = NoSdFrame,
                                  ![t].pc = "wait_grace_period"]
  /\ UNCHANGED <<sdStepFrame, initialized, op, ret, invoked, statedump_list, sd_handle,
                 statedump_lock, delivered>>

\* side_statedump_request_notification_unregister without the grace period.
statedump_unregister_wait_no_gp(t) ==
  /\ ~crashed
  /\ sd_frame[t].pc = "wait_grace_period"
  /\ sd_frame' = [sd_frame EXCEPT ![t].pc = "grace_period", ![t].gp_wait = {}]
  /\ UNCHANGED <<sdStepFrame, initialized, op, ret, invoked, statedump_list, sd_handle,
                 statedump_lock, agent_thread, side_agent_thread_lock, delivered>>

\* side_rcu_wait_grace_period(&statedump_rcu_gp) is called: the read sections
\* in progress are the ones it waits for.
statedump_unregister_wait(t) ==
  /\ ~crashed
  /\ sd_frame[t].pc = "wait_grace_period"
  /\ sd_frame' = [sd_frame EXCEPT
                    ![t].pc = "grace_period",
                    ![t].gp_wait = IF AgentReading THEN {AgentThread} ELSE {}]
  /\ UNCHANGED <<sdStepFrame, initialized, op, ret, invoked, statedump_list, sd_handle,
                 statedump_lock, agent_thread, side_agent_thread_lock, delivered>>

\* side_rcu_wait_grace_period(&statedump_rcu_gp) returns; free(handle->name),
\* free(handle), return.
statedump_unregister_leave(t) ==
  /\ ~crashed
  /\ sd_frame[t].pc = "grace_period"
  /\ side_rcu_wait_grace_period_returns(sd_frame[t].gp_wait)
  /\ sd_handle' = [sd_handle EXCEPT ![sd_frame[t].h] = NoHandle]
  /\ sd_frame' = [sd_frame EXCEPT ![t] = NoSdFrame]
  /\ op' = "side_statedump_request_notification_unregister"
  /\ ReturnVoid
  /\ UNCHANGED <<sdStepFrame, initialized, statedump_list, statedump_lock, agent_thread,
                 side_agent_thread_lock, delivered>>

\* statedump_agent_func in its pause loop: the load of the state finds PAUSE
\* cleared; continue.
statedump_agent_pause_loop ==
  /\ ~crashed
  /\ sd_frame[AgentThread].pc = "paused"
  /\ AGENT_THREAD_STATE_PAUSE \notin agent_thread.state
  /\ sd_frame' = [sd_frame EXCEPT ![AgentThread].pc = "lock",
                                  ![AgentThread].state = {}]
  /\ UNCHANGED <<sdStepFrame, initialized, op, ret, invoked, statedump_list, sd_handle,
                 statedump_lock, agent_thread, side_agent_thread_lock, delivered>>

\* static void side_before_fork(void): pthread_mutex_lock(&side_agent_thread_lock)
\* and the test of statedump_agent_thread.ref; without an agent thread the hook
\* returns with the mutex held.
side_before_fork_enter(t) ==
  /\ ~crashed
  /\ initialized
  /\ sd_frame[t].pc = "idle"
  /\ side_agent_thread_lock = NoThread
  /\ side_agent_thread_lock' = t
  /\ sd_frame' = [sd_frame EXCEPT ![t] =
                    [NoSdFrame EXCEPT
                       !.pc = IF agent_thread.ref = 0 THEN "forked" ELSE "pause",
                       !.fn = "side_before_fork"]]
  /\ op' = "side_before_fork"
  /\ ReturnVoid
  /\ UNCHANGED <<sdStepFrame, initialized, statedump_list, sd_handle, statedump_lock,
                 agent_thread, delivered>>

\* side_before_fork: lock side_statedump_lock, set PAUSE, broadcast
\* worker_cond, unlock.
side_before_fork_pause(t) ==
  /\ ~crashed
  /\ sd_frame[t].pc = "pause"
  /\ MutexCanLock(statedump_lock, t)
  /\ agent_thread' = [agent_thread EXCEPT !.state = @ \cup {AGENT_THREAD_STATE_PAUSE}]
  /\ sd_frame' = [pthread_cond_broadcast(sd_frame, {AgentThread}) EXCEPT
                    ![t].pc = "wait_ack"]
  /\ UNCHANGED <<sdStepFrame, initialized, op, ret, invoked, statedump_list, sd_handle,
                 statedump_lock, side_agent_thread_lock, delivered>>

\* side_before_fork returning without the wait for PAUSE_ACK.
side_before_fork_return_no_ack(t) ==
  /\ ~crashed
  /\ sd_frame[t].pc = "wait_ack"
  /\ sd_frame' = [sd_frame EXCEPT ![t].pc = "forked"]
  /\ UNCHANGED <<sdStepFrame, initialized, op, ret, invoked, statedump_list, sd_handle,
                 statedump_lock, agent_thread, side_agent_thread_lock, delivered>>

\* side_before_fork: the load of the state finds PAUSE_ACK; return. The
\* process forks.
side_before_fork_return(t) ==
  /\ ~crashed
  /\ sd_frame[t].pc = "wait_ack"
  /\ AGENT_THREAD_STATE_PAUSE_ACK \in agent_thread.state
  /\ sd_frame' = [sd_frame EXCEPT ![t].pc = "forked"]
  /\ UNCHANGED <<sdStepFrame, initialized, op, ret, invoked, statedump_list, sd_handle,
                 statedump_lock, agent_thread, side_agent_thread_lock, delivered>>

\* static void side_after_fork_parent(void)
side_after_fork_parent(t) ==
  /\ ~crashed
  /\ sd_frame[t].pc = "forked"
  /\ agent_thread' =
       IF agent_thread.ref # 0
       THEN [agent_thread EXCEPT
               !.state = @ \ {AGENT_THREAD_STATE_PAUSE, AGENT_THREAD_STATE_PAUSE_ACK}]
       ELSE agent_thread
  /\ side_agent_thread_lock' = NoThread
  /\ sd_frame' = [sd_frame EXCEPT ![t] = NoSdFrame]
  /\ op' = "side_after_fork_parent"
  /\ ReturnVoid
  /\ UNCHANGED <<sdStepFrame, initialized, statedump_list, sd_handle, statedump_lock,
                 delivered>>

\* The steps of the agent thread, its pause loop included.
AgentForkSteps ==
  \/ AgentSteps
  \/ statedump_agent_pause_loop

\* The steps that continue a call.
CallerSteps(t) ==
  \/ statedump_register_wait(t)
  \/ statedump_agent_thread_join(t)
  \/ statedump_unregister_wait(t)
  \/ statedump_unregister_leave(t)
  \/ side_before_fork_pause(t)
  \/ side_before_fork_return(t)
  \/ side_after_fork_parent(t)

\* Most notifications delivered before the last registration or request.
MaxDelivered == 3
DeliveredBelow(n) == Len(delivered) < n

NextFork ==
  \/ \E h \in SdHandles, mode \in SdModes :
       /\ DeliveredBelow(MaxDelivered)
       /\ statedump_register_enter("app", h, mode)
  \/ \E h \in SdHandles : statedump_unregister_enter("app", h)
  \/ \E t \in SdCallers : side_before_fork_enter(t)
  \/ \E t \in SdCallers : CallerSteps(t)
  \/ AgentForkSteps
  \/ /\ sd_frame["tracer"].pc = "idle"
     /\ HoldBelow(MaxHold) /\ QueuesBelow(MaxQueue)
     /\ DeliveredBelow(MaxDelivered)
     /\ side_tracer_statedump_request("tracer", 9, TRUE)

SpecFork == Init /\ [][NextFork]_vars

\* The process is between the return of side_before_fork on thread t and
\* side_after_fork_parent.
Forking(t) == sd_frame[t].pc = "forked"

\* C24. Fork quiescence: while an agent worker is live, in every state
\* between the return of side_before_fork and side_after_fork_parent the worker
\* is in its pause loop, so it runs no statedump callback, is in no
\* statedump_rcu_gp read section and does not own side_statedump_lock, and the
\* forking thread owns side_agent_thread_lock.
C24_ForkQuiescence ==
  \A t \in SdCallers :
    (Forking(t) /\ agent_thread.ref > 0) =>
      /\ sd_frame[AgentThread].fn = "statedump_agent_func"
      /\ sd_frame[AgentThread].pc = "paused"
      /\ ~AgentReading
      /\ statedump_lock.owner # AgentThread
      /\ side_agent_thread_lock = t
      /\ AGENT_THREAD_STATE_PAUSE_ACK \in agent_thread.state

\* A fork with a live worker that has a request left to serve.
C24_Witness ==
  /\ Forking("app")
  /\ agent_thread.ref > 0
  /\ sd_frame[AgentThread].pc = "paused"
  /\ AGENT_THREAD_STATE_HANDLE_REQUEST \in agent_thread.state
  /\ \E h \in Range(statedump_list) : sd_handle[h].queue # <<>>

\* Scheduling for the fork hooks: a running thread that can take a step takes
\* it, and the worker, which polls the state in its pause loop, does not miss
\* for ever a condition that holds again and again.
SpecForkFair ==
  /\ SpecFork
  /\ WF_vars(AgentSteps)
  /\ SF_vars(statedump_agent_pause_loop)
  /\ \A t \in SdCallers : WF_vars(CallerSteps(t))

\* side_statedump_lock is not owned.
StatedumpLockFree == statedump_lock = MutexFree

\* C25. Fork handshake: with side_statedump_lock never left owned, every
\* side_before_fork that has requested the pause eventually returns, a second
\* fork right after side_after_fork_parent included, and a worker in its pause
\* loop with PAUSE cleared eventually leaves the loop.
C25_ForkHandshake ==
  ([]StatedumpLockFree) =>
    /\ \A t \in SdCallers : (sd_frame[t].pc = "wait_ack") ~> Forking(t)
    /\ (sd_frame[AgentThread].pc = "paused"
          /\ AGENT_THREAD_STATE_PAUSE \notin agent_thread.state)
         ~> (sd_frame[AgentThread].pc # "paused")

\* C26. Lock ordering: no thread acquires side_agent_thread_lock while it
\* owns side_statedump_lock, and a statedump callback is invoked by a thread
\* that owns neither of the two mutexes.
C26_LockOrdering ==
  [][\A t \in SdThreads :
       /\ (side_agent_thread_lock' = t /\ side_agent_thread_lock # t) =>
            statedump_lock.owner # t
       /\ (Len(delivered') > Len(delivered) /\ delivered'[Len(delivered')].by = t) =>
            /\ statedump_lock.owner # t
            /\ side_agent_thread_lock # t]_vars

\* C27. Statedump handle reclamation: a handle is freed only when it is
\* unlinked, its queue is empty and the agent thread holds no pointer to it;
\* the handle the agent thread works on in its read section is allocated; a
\* callback is invoked only for an allocated handle, so never after the
\* unregistration returned; an unlinked handle's queue stays empty.
C27_SafeReclamation ==
  [][
      /\ \A h \in SdHandles :
           (sd_handle[h].allocated /\ ~sd_handle'[h].allocated) =>
              /\ h \notin Range(statedump_list)
              /\ sd_handle[h].queue = <<>>
              /\ sd_frame[AgentThread].h # h
              /\ sd_frame'[AgentThread].h # h
      /\ AgentReading' => sd_handle'[sd_frame'[AgentThread].h].allocated
      /\ (Len(delivered') > Len(delivered)) =>
           sd_handle[delivered'[Len(delivered')].h].allocated
      /\ \A h \in SdHandles :
           (sd_handle'[h].allocated /\ h \notin Range(statedump_list')) =>
              sd_handle'[h].queue = <<>>
    ]_vars

\* The unregistration of a handle waits for the read section in which the
\* agent thread runs that handle's callback.
C27_Witness ==
  /\ sd_frame["app"].pc = "grace_period"
  /\ sd_frame["app"].gp_wait = {AgentThread}
  /\ sd_frame[AgentThread].pc = "run"
  /\ sd_frame[AgentThread].h = sd_frame["app"].h
  /\ sd_frame["app"].h \notin Range(statedump_list)

\* The linked handles of agent-thread mode.
AgentHandles ==
  {h \in Range(statedump_list) : sd_handle[h].mode = SIDE_STATEDUMP_MODE_AGENT_THREAD}

\* The agent thread exists: created and not yet joined.
WorkerExists == sd_frame[AgentThread].fn = "statedump_agent_func"

\* C28. Agent life cycle: whenever side_agent_thread_lock is free, ref is the
\* number of linked agent-mode handles and the agent thread exists exactly when
\* ref > 0, its state being BLOCKED when there is none; the thread is created
\* on the step of ref from 0 to 1, when none exists; the step of ref to 0
\* requests EXIT, and when that unregistration returns the thread has been
\* joined.
C28_AgentLifecycle ==
  [][
      /\ side_agent_thread_lock' = NoThread =>
           /\ agent_thread'.ref = Cardinality(AgentHandles')
           /\ WorkerExists' <=> agent_thread'.ref > 0
           /\ agent_thread'.ref = 0 => agent_thread'.state = AGENT_THREAD_STATE_BLOCKED
      /\ (agent_thread.ref = 0 /\ agent_thread'.ref # 0) =>
           /\ agent_thread'.ref = 1
           /\ ~WorkerExists
           /\ WorkerExists'
      /\ (agent_thread.ref # 0 /\ agent_thread'.ref = 0) =>
           /\ agent_thread.ref = 1
           /\ AGENT_THREAD_STATE_EXIT \in agent_thread'.state
           /\ \E t \in SdCallers : side_agent_thread_lock' = t /\ sd_frame'[t].pc = "join"
      /\ (WorkerExists /\ ~WorkerExists') =>
           /\ sd_frame[AgentThread].pc = "exited"
           /\ \E t \in SdCallers : sd_frame[t].pc = "join"
      /\ \A t \in SdCallers :
           (sd_frame[t].fn = "side_statedump_request_notification_unregister"
              /\ sd_frame'[t].pc = "idle" /\ agent_thread.ref = 0) =>
             /\ ~WorkerExists
             /\ agent_thread.state = AGENT_THREAD_STATE_BLOCKED
    ]_vars

\* The last agent-mode handle was unregistered after the agent thread ran its
\* callback: the thread is gone and the state is BLOCKED again.
C28_Witness ==
  /\ op = "side_statedump_request_notification_unregister"
  /\ sd_frame["app"].pc = "idle"
  /\ side_agent_thread_lock = NoThread
  /\ agent_thread = [ref |-> 0, state |-> AGENT_THREAD_STATE_BLOCKED]
  /\ ~WorkerExists
  /\ \E i \in 1..Len(delivered) : delivered[i].by = AgentThread
  /\ \E h \in SdHandles : ~sd_handle[h].allocated

\* The handles the agent thread has yet to reach in its pass over
\* side_statedump_list, following the next pointers from handle h.
RECURSIVE ListRest(_, _)
ListRest(h, fuel) ==
  IF fuel = 0 THEN {}
  ELSE LET n == side_list_next_rcu(h)
       IN IF n = NULL THEN {} ELSE {n} \cup ListRest(n, fuel - 1)

\* The agent thread's current pass will still splice the queue of handle h.
WillVisit(h) ==
  LET f == sd_frame[AgentThread]
  IN \/ f.pc = "read_begin"
     \/ f.pc = "splice" /\ f.h = h
     \/ f.pc \in {"splice", "run", "next"} /\ h \in ListRest(f.h, Cardinality(SdHandles))

RunTriples(e) ==
  IF e = "side_statedump_begin"
  THEN {Triple(FnA, NULL, 9)}
  ELSE {Triple(FnB, PrivP, SIDE_KEY_MATCH_ALL)}
\* The handle that is drained.
RunHandle == CHOOSE h \in SdHandles : \A g \in SdHandles : h <= g

\* The keys tracers request a dump with.
RunKeys == {8, 9}
\* Most holds of side_statedump_lock left by requests.
MaxRunHold == 4

NextRun ==
  \/ \E t \in Threads, e \in StatedumpEvents :
       \E x \in RunTriples(e) :
         /\ registered[e] = <<>>
         /\ side_tracer_callback_register(t, e, FALSE, x.call, x.priv, x.key, TRUE)
  \/ /\ DeliveredBelow(MaxDelivered)
     /\ statedump_register_enter("app", RunHandle, SIDE_STATEDUMP_MODE_POLLING)
  \/ \E t \in SdCallers : statedump_run_pending_enter(t, RunHandle)
  \/ \E t \in SdCallers : DrainSteps(t)
  \/ \E t \in SdCallers, key \in RunKeys :
       /\ sd_frame[t].pc = "idle"
       /\ HoldBelow(MaxRunHold) /\ QueuesBelow(MaxPollQueue)
       /\ DeliveredBelow(MaxDelivered)
       /\ side_tracer_statedump_request(t, key, TRUE)

SpecRun == Init /\ [][NextRun]_vars

\* The calls an emit of event e with key key makes, from the callbacks
\* registered on e in registration order.
RECURSIVE KeyedCalls(_, _)
KeyedCalls(cbs, key) ==
  IF cbs = <<>> THEN <<>>
  ELSE IF \/ key = SIDE_KEY_MATCH_ALL
          \/ Head(cbs).key = SIDE_KEY_MATCH_ALL
          \/ Head(cbs).key = key
  THEN <<Head(cbs)>> \o KeyedCalls(Tail(cbs), key)
  ELSE KeyedCalls(Tail(cbs), key)

\* Thread t is running the notifications of a drain.
Draining(t) == sd_frame[t].pc = "run"

\* C30. Statedump run ordering: a drain splices the whole queue and leaves it
\* empty; it runs the spliced notifications one at a time from the head, each
\* as the begin event's calls with the notification's key, the handle's
\* callback with that key, the end event's calls with that key; nothing joins
\* the spliced notifications, and what is queued on the handle after the
\* splice is left in the queue by this drain, for the next one.
C30_RunOrdering ==
  [][\A t \in SdCallers :
       LET f == sd_frame[t]
           g == sd_frame'[t]
       IN /\ (f.pc = "splice" /\ g.pc = "run") =>
               /\ g.tmp_head = sd_handle[f.h].queue
               /\ sd_handle'[f.h].queue = <<>>
               /\ delivered' = delivered
          /\ (Draining(t) /\ g.tmp_head # f.tmp_head) =>
               /\ f.tmp_head # <<>>
               /\ g.tmp_head = Tail(f.tmp_head)
               /\ delivered' =
                    Append(delivered, [h |-> f.h, key |-> Head(f.tmp_head), by |-> t])
               /\ invoked' =
                    KeyedCalls(registered["side_statedump_begin"], Head(f.tmp_head))
                      \o <<StatedumpCall(f.h, Head(f.tmp_head))>>
                      \o KeyedCalls(registered["side_statedump_end"], Head(f.tmp_head))
          /\ (Draining(t) /\ sd_handle'[f.h].queue # sd_handle[f.h].queue) =>
               /\ g = f
               /\ \/ \E key \in RunKeys :
                       sd_handle'[f.h].queue = Append(sd_handle[f.h].queue, key)
                  \/ \E u \in SdCallers \ {t} :
                       /\ sd_frame[u].pc = "splice"
                       /\ sd_frame'[u].tmp_head = sd_handle[f.h].queue
          /\ (Draining(t) /\ ~Draining(t)') =>
               /\ f.tmp_head = <<>>
               /\ sd_handle'[f.h].queue = sd_handle[f.h].queue
               /\ op' = "side_statedump_run_pending_requests"
               /\ ret' = SIDE_ERROR_OK
     ]_vars

\* A drain of three notifications has run the first two, the second with
\* the begin and end events' calls around the callback.
C30_Witness ==
  /\ Draining("tracer")
  /\ sd_frame["tracer"].tmp_head = <<8>>
  /\ Len(delivered) = 2
  /\ delivered[1] = [h |-> RunHandle, key |-> SIDE_KEY_MATCH_ALL, by |-> "tracer"]
  /\ delivered[2] = [h |-> RunHandle, key |-> 9, by |-> "tracer"]
  /\ invoked = <<Triple(FnA, NULL, 9), StatedumpCall(RunHandle, 9),
                 Triple(FnB, PrivP, SIDE_KEY_MATCH_ALL)>>

\* A request queued on the handle after the splice, while the notification
\* spliced is still to run.
C30_WitnessPending ==
  /\ Draining("app")
  /\ sd_frame["app"].tmp_head = <<SIDE_KEY_MATCH_ALL>>
  /\ sd_handle[RunHandle].queue = <<9>>
  /\ op = "side_tracer_statedump_request"

\* C31. Shared enable bits are framed: no call of the library changes the
\* shared top bits of an event's enabled word, whatever an out-of-process
\* tracer wrote to them before the call; the +1 and -1 of the callback
\* register, the callback unregister and side_events_unregister neither carry
\* into them nor borrow from them.
C31_SharedBitsFramed ==
  [][op' # "shared_bit_toggle" =>
       \A e \in AllEvents :
         EnabledShared(es'[e].enabled) = EnabledShared(es[e].enabled)]_vars

\* The last callback of e0 was unregistered, the private count went from 1
\* to 0, with a shared bit set.
C31_Witness ==
  /\ op = "unregister"
  /\ ret = SIDE_ERROR_OK
  /\ es["e0"].nr_callbacks = 0
  /\ EnabledPrivate(es["e0"].enabled) = 0
  /\ EnabledShared(es["e0"].enabled) # 0

(***************************************************************************)
(* The child process of a fork: a copy of the parent's memory in which     *)
(* only the forking thread exists.                                         *)
(***************************************************************************)
\* A thread of the parent that does not exist in the child.
GoneFrame == [NoSdFrame EXCEPT !.pc = "gone"]

\* The agent thread as pthread_create starts it.
FreshWorker == [NoSdFrame EXCEPT !.pc = "lock", !.fn = "statedump_agent_func"]

\* static void side_after_fork_child(void), on the forking thread t in the
\* child: with agent-mode handles registered statedump_agent_thread_fini,
\* statedump_agent_thread_init and pthread_create; unlock of
\* side_agent_thread_lock. The deliveries recorded from here on are the
\* child's.
side_after_fork_child(t) ==
  /\ ~crashed
  /\ Forking(t)
  /\ agent_thread' =
       IF agent_thread.ref # 0
       THEN [agent_thread EXCEPT !.state = AGENT_THREAD_STATE_BLOCKED]
       ELSE agent_thread
  /\ side_agent_thread_lock' = NoThread
  /\ sd_frame' =
       [u \in SdThreads |->
          IF u = t THEN NoSdFrame
          ELSE IF u = AgentThread
          THEN IF agent_thread.ref # 0 THEN FreshWorker ELSE NoSdFrame
          ELSE GoneFrame]
  /\ delivered' = <<>>
  /\ op' = "side_after_fork_child"
  /\ ReturnVoid
  /\ UNCHANGED <<sdStepFrame, initialized, statedump_list, sd_handle, statedump_lock>>

\* The process is the one the model started with, not a child of it.
FirstProcess == \A u \in SdCallers : sd_frame[u].pc # "gone"

\* The first process, and one child of it, followed from its fork on.
NextChild ==
  \/ NextFork
  \/ \E t \in SdCallers : FirstProcess /\ side_after_fork_child(t)

SpecChild == Init /\ [][NextChild]_vars

\* Scheduling in the parent and in the child, as for the fork hooks.
SpecChildFair ==
  /\ SpecChild
  /\ WF_vars(AgentSteps)
  /\ SF_vars(statedump_agent_pause_loop)
  /\ \A t \in SdCallers : WF_vars(CallerSteps(t))

\* The child has returned from side_after_fork_child and has called nothing
\* since.
ChildStarted ==
  /\ op = "side_after_fork_child"
  /\ \A t \in SdCallers : sd_frame[t].pc \in {"idle", "gone"}

\* The agent thread of this process has run handle h's callback with key key.
RunByWorker(h, key) ==
  \E i \in 1..Len(delivered) :
    delivered[i] = [h |-> h, key |-> key, by |-> AgentThread]

\* C32. Child after fork: with side_statedump_lock never left owned, after
\* side_after_fork_child with agent-mode handles registered the child has a
\* fresh agent thread, PAUSE and PAUSE_ACK are clear and
\* side_agent_thread_lock is free, and every notification pending on an
\* agent-mode handle is eventually run by the child's agent thread.
C32_ChildAfterFork ==
  ([]StatedumpLockFree) =>
    /\ [](ChildStarted =>
            /\ side_agent_thread_lock = NoThread
            /\ AGENT_THREAD_STATE_PAUSE \notin agent_thread.state
            /\ AGENT_THREAD_STATE_PAUSE_ACK \notin agent_thread.state
            /\ WorkerExists <=> agent_thread.ref > 0
            /\ sd_frame[AgentThread].pc # "paused")
    /\ \A h \in SdHandles, key \in {SIDE_KEY_MATCH_ALL, 9} :
         (/\ ChildStarted
          /\ h \in AgentHandles
          /\ key \in Range(sd_handle[h].queue))
           ~> RunByWorker(h, key)

====
